---- MODULE Spec2Model ----
(***************************************************************************)
(* A model of godzilla, a mutation testing tool for Go packages.           *)
(*                                                                         *)
(*  - the mutators of src/mutators.go, as functions over a syntax tree     *)
(*    kept in an arena (node id -> node record, children held by id, so    *)
(*    that the in-place writes and restores of the Go code are writes and  *)
(*    restores of arena cells);                                            *)
(*  - the literal predicates isZero / isOne and their regular expressions; *)
(*  - the worker pool, the tester and the aggregation loop of              *)
(*    src/cmd/godzilla/main.go.                                            *)
(***************************************************************************)
EXTENDS Integers, Sequences, FiniteSets, Bags, TLC

VARIABLES
    \* ---- one mutator call on one node (SpecOp) ----
    heap,        \* the syntax tree: node id -> node record
    parseInfo,   \* ParseInfo: CoveredBlocks and TypesInfo (positions live in the nodes)
    node,        \* the ast.Node handed to the mutator
    orig,        \* the arena as it was when the mutator was called
    tests,       \* what the Tester saw: the arena at each Test() call, in order
    ran,         \* the name of the mutator that has run, "none" before
    \* ---- the literal predicates (SpecLit) ----
    lit,         \* a BasicLit: [Kind, Value]
    litres,      \* the predicates' answers for lit
    \* ---- one run of the program (Spec) ----
    queue,       \* the channel c of main: the mutators not yet received
    wk,          \* each worker goroutine: where it is in Mutate and its locals
    disk,        \* the directories under tmpDir: directory -> file name -> what the file holds
    closed,      \* whether the results channel has been closed
    res,         \* main's running sum of the results received
    sigs,        \* the interrupt: "none", or "handled" by the signal goroutine
    wg,          \* the goroutine behind wg.Wait(): "waiting" or "closed"
    proc,        \* the process: "running", "exited" or "panicked"
    taken,       \* every receive from c so far: who got which queue entry
    sent,        \* the results main has received from the results channel, as a bag
    \* ---- the start of the program (SpecCfg) ----
    osargs,      \* the command line and the environment the process was started with
    boot,        \* main before the workers: where it is, the config, the exit status
    \* ---- the coverage profile (SpecCov) ----
    cover,       \* a profile's Blocks and the position of a node
    covres       \* what covered() answered and what the filter left of the Blocks

opVars == <<heap, parseInfo, node, orig, tests, ran>>
litVars == <<lit, litres>>
runVars == <<queue, wk, disk, closed, res, sigs, wg, proc, taken, sent>>
cfgVars == <<osargs, boot>>
covVars == <<cover, covres>>
vars == <<heap, parseInfo, node, orig, tests, ran, lit, litres,
          queue, wk, disk, closed, res, sigs, wg, proc, taken, sent, osargs, boot,
          cover, covres>>

(***************************************************************************)
(* Bounds of the model.                                                    *)
(***************************************************************************)
\* longest literal text drawn for the literal predicates
MaxLen == 4
\* most statements in a drawn block
MaxList == 2
\* most case clauses in a drawn switch
MaxCases == 3
\* most mutators named on the command line
MaxOps == 2
\* most positional arguments on the command line
MaxArgs == 2
\* most blocks in a drawn coverage profile
MaxBlocks == 3
\* last line and last column of a drawn position
MaxLine == 2
MaxCol == 2
\* highest execution count of a drawn block
MaxCount == 1

(***************************************************************************)
(* Small helpers.                                                          *)
(***************************************************************************)
Range(s) == {s[i] : i \in DOMAIN s}

\* all sequences over S of length 0..n
RECURSIVE SeqsUpTo(_, _)
SeqsUpTo(S, n) ==
    IF n = 0 THEN {<<>>}
    ELSE LET shorter == SeqsUpTo(S, n - 1)
         IN shorter \cup {Append(s, x) : s \in {t \in shorter : Len(t) = n - 1}, x \in S}

\* s without its i-th element
RemoveAt(s, i) == SubSeq(s, 1, i - 1) \o SubSeq(s, i + 1, Len(s))

\* s with x inserted so that it becomes the i-th element
InsertAt(s, i, x) == SubSeq(s, 1, i - 1) \o <<x>> \o SubSeq(s, i, Len(s))

(***************************************************************************)
(* Literal text and the two regular expressions (src/mutators.go:672,687). *)
(* A text is a sequence of one-character strings.                          *)
(***************************************************************************)
AllZeros(t) == \A i \in DOMAIN t : t[i] = "0"

\* t is in the language of  0+(\.0*|)
InZerosOptFrac(t) ==
    \E k \in 1..Len(t) :
        /\ AllZeros(SubSeq(t, 1, k))
        /\ \/ k = Len(t)
           \/ /\ t[k + 1] = "."
              /\ AllZeros(SubSeq(t, k + 2, Len(t)))

\* t is in the language of  \.0+
InDotZeros(t) ==
    /\ Len(t) >= 2
    /\ t[1] = "."
    /\ AllZeros(SubSeq(t, 2, Len(t)))

\* zeroRegexp.Match: an unanchored search for  ^(0+(\.0*|))  or  (\.0+)$ .
\* The alternation binds weaker than ^ and $, so ^ anchors the first branch
\* only and $ the second only.
zeroRegexpMatch(t) ==
    \/ \E j \in 1..Len(t) : InZerosOptFrac(SubSeq(t, 1, j))
    \/ \E i \in 1..Len(t) : InDotZeros(SubSeq(t, i, Len(t)))

\* oneRegexp.Match:  ^1(\.0+|)$  is anchored at both ends.
oneRegexpMatch(t) ==
    /\ Len(t) >= 1
    /\ t[1] = "1"
    /\ \/ Len(t) = 1
       \/ InDotZeros(SubSeq(t, 2, Len(t)))

(***************************************************************************)
(* The syntax tree.  go/ast nodes are records with the fields of the Go    *)
(* struct they stand for, plus tag (the dynamic type) and pos (what        *)
(* node.Pos() resolves to in the FileSet).  In the arena a child is the id *)
(* of its node and 0 is a nil child; a drawn input is written as a nested  *)
(* tree, whose children are trees, and loaded into the arena as            *)
(* parser.ParseDir and types.Config.Check deliver it.                      *)
(***************************************************************************)
NilNode == [tag |-> "nil"]

\* the fields of a node that hold children, in the order ast.Walk visits them
ChildFields(tag) ==
    CASE tag = "BinaryExpr" -> <<"X", "Y">>
      [] tag = "UnaryExpr"  -> <<"X">>
      [] tag = "ParenExpr"  -> <<"X">>
      [] tag = "CallExpr"   -> <<"Fun">>
      [] tag = "ExprStmt"   -> <<"X">>
      [] tag = "ReturnStmt" -> <<"Results">>
      [] tag = "AssignStmt" -> <<"Lhs", "Rhs">>
      [] tag = "BlockStmt"  -> <<"List">>
      [] tag = "IfStmt"     -> <<"Cond", "Body", "Else">>
      [] tag = "CaseClause" -> <<"List", "Body">>
      [] tag = "SwitchStmt" -> <<"Body">>
      [] tag = "SendStmt"   -> <<"Chan", "Value">>
      [] tag = "FuncDecl"   -> <<"Body">>
      [] tag = "File"       -> <<"Decls">>
      [] OTHER              -> <<>>

\* whether field f of a node with this tag is a slice of children
IsList(tag, f) ==
    \/ f \in {"Results", "Lhs", "Rhs", "List", "Decls"}
    \/ tag = "CaseClause" /\ f = "Body"

\* types.TypeAndValue: mode novalue is what IsVoid() reports; an expression
\* without an entry in TypesInfo.Types has mode "missing" in a drawn tree
Basic(k) == [mode |-> "value", class |-> "Basic", Kind |-> k]
VoidTV == [mode |-> "novalue", class |-> "Tuple", Kind |-> ""]
NamedTV == [mode |-> "value", class |-> "Named", Kind |-> ""]
NoTV == [mode |-> "missing", class |-> "", Kind |-> ""]

\* the children a tree holds in field f, as a sequence of trees
FieldKids(t, f) == IF IsList(t.tag, f) THEN t[f] ELSE <<t[f]>>

RECURSIVE KidsBefore(_, _)
\* the children of tree t held by the child fields before the k-th, in order
KidsBefore(t, k) ==
    IF k <= 1 THEN <<>>
    ELSE KidsBefore(t, k - 1) \o FieldKids(t, ChildFields(t.tag)[k - 1])

Kids(t) == KidsBefore(t, Len(ChildFields(t.tag)) + 1)

RECURSIVE Size(_), SizeAll(_)
\* the number of nodes of a tree (a nil child is none)
Size(t) == IF t.tag = "nil" THEN 0 ELSE 1 + SizeAll(Kids(t))
SizeAll(ts) == IF ts = <<>> THEN 0 ELSE Size(Head(ts)) + SizeAll(Tail(ts))

\* the ids of the trees ts when they are laid out one after the other from
\* id base + 1 on, each tree's root first; 0 for a nil tree
IdsFrom(ts, base) ==
    [j \in 1..Len(ts) |->
        IF ts[j].tag = "nil" THEN 0 ELSE base + 1 + SizeAll(SubSeq(ts, 1, j - 1))]

\* the position of field f among the child fields of its tag
FieldIndex(tag, f) == CHOOSE k \in DOMAIN ChildFields(tag) : ChildFields(tag)[k] = f

RECURSIVE Nodes(_, _), NodesAll(_, _)
\* the arena cells of tree t laid out from id base + 1 on: the node, then its
\* children's subtrees in ast.Walk order
Nodes(t, base) ==
    IF t.tag = "nil" THEN <<>>
    ELSE LET rec == [f \in DOMAIN t \ {"tv"} |->
                        IF f \in Range(ChildFields(t.tag))
                        THEN LET ids == IdsFrom(FieldKids(t, f),
                                                base + 1 + SizeAll(KidsBefore(t, FieldIndex(t.tag, f))))
                             IN IF IsList(t.tag, f) THEN ids ELSE ids[1]
                        ELSE t[f]]
         IN <<rec>> \o NodesAll(Kids(t), base + 1)
NodesAll(ts, base) ==
    IF ts = <<>> THEN <<>>
    ELSE Nodes(Head(ts), base) \o NodesAll(Tail(ts), base + Size(Head(ts)))

RECURSIVE TypeFacts(_), TypeFactsAll(_)
\* the TypeAndValue of every node of tree t, in the order of Nodes
TypeFacts(t) == IF t.tag = "nil" THEN <<>> ELSE <<t.tv>> \o TypeFactsAll(Kids(t))
TypeFactsAll(ts) ==
    IF ts = <<>> THEN <<>> ELSE TypeFacts(Head(ts)) \o TypeFactsAll(Tail(ts))

\* tree t parsed and type-checked: the arena, TypesInfo.Types (the entries the
\* checker recorded) and the id of t's root
Load(t) ==
    LET facts == TypeFacts(t)
    IN [nodes |-> Nodes(t, 0),
        types |-> [i \in {j \in DOMAIN facts : facts[j].mode # "missing"} |-> facts[i]],
        id |-> IF t.tag = "nil" THEN 0 ELSE 1]

RECURSIVE Tree(_, _)
\* the tree under node id of arena h, as a nested value
Tree(h, id) ==
    IF id = 0 THEN NilNode
    ELSE LET n == h[id]
         IN [f \in DOMAIN n |->
                IF f \in Range(ChildFields(n.tag))
                THEN IF IsList(n.tag, f)
                     THEN [i \in DOMAIN n[f] |-> Tree(h, n[f][i])]
                     ELSE Tree(h, n[f])
                ELSE n[f]]

RECURSIVE ChildrenFrom(_, _, _)
\* the ids held by the child fields fs[k..] of node id, nil children left out
ChildrenFrom(h, id, k) ==
    LET n == h[id]
        fs == ChildFields(n.tag)
    IN IF k > Len(fs) THEN <<>>
       ELSE (IF IsList(n.tag, fs[k]) THEN n[fs[k]]
             ELSE IF n[fs[k]] = 0 THEN <<>> ELSE <<n[fs[k]]>>) \o ChildrenFrom(h, id, k + 1)

\* the ids of the children of node id, in ast.Walk order
Children(h, id) == ChildrenFrom(h, id, 1)

RECURSIVE PreOrder(_, _), PreOrderAll(_, _)
\* the nodes ast.Walk hands to Visit under node id, in order
PreOrder(h, id) == <<id>> \o PreOrderAll(h, Children(h, id))
PreOrderAll(h, ids) ==
    IF ids = <<>> THEN <<>> ELSE PreOrder(h, Head(ids)) \o PreOrderAll(h, Tail(ids))

RECURSIVE VisitCalls(_, _), VisitCallsAll(_, _)
\* the arguments of the calls v.Visit(...) that ast.Walk(v, node) makes when
\* Visit always returns v: the node, the calls for its children, and nil
VisitCalls(h, id) == <<id>> \o VisitCallsAll(h, Children(h, id)) \o <<0>>
VisitCallsAll(h, ids) ==
    IF ids = <<>> THEN <<>> ELSE VisitCalls(h, Head(ids)) \o VisitCallsAll(h, Tail(ids))

\* the ids reachable from node id
Reach(h, id) == IF id = 0 THEN {} ELSE Range(PreOrder(h, id))

(***************************************************************************)
(* ParseInfo, coverage and the literal / type predicates                   *)
(* (src/mutators.go).                                                      *)
(***************************************************************************)
\* token.NoPos: the position of a node the mutators build themselves
NoPos == [Line |-> 0, Column |-> 0]

\* a covered() that looks at the lines only
coveredPosByLine(blocks, pos) ==
    \E k \in DOMAIN blocks :
        LET block == blocks[k]
        IN /\ block.Count > 0
           /\ block.StartLine <= pos.Line
           /\ block.EndLine >= pos.Line

\* the test of covered() on a resolved position
coveredPos(blocks, pos) ==
    \E k \in DOMAIN blocks :
        LET block == blocks[k]
        IN /\ block.Count > 0
           /\ \/ block.StartLine < pos.Line
              \/ block.StartLine = pos.Line /\ pos.Column >= block.StartCol
           /\ \/ block.EndLine > pos.Line
              \/ block.EndLine = pos.Line /\ pos.Column <= block.EndCol

\* a covered() that admits every node: what the mutators would do ungated
coveredEverywhere(info, h, n) == TRUE

covered(info, h, n) == coveredPos(info.CoveredBlocks, h[n].pos)

\* parseInfo.TypesInfo.Types[e]: the zero TypeAndValue when there is no entry
TypeOf(info, e) == IF e \in DOMAIN info.TypesInfo THEN info.TypesInfo[e] ELSE NoTV

IsVoid(tv) == tv.mode = "novalue"

isZero(h, e) ==
    /\ e # 0
    /\ h[e].tag = "BasicLit"
    /\ h[e].Kind \in {"INT", "FLOAT"}
    /\ zeroRegexpMatch(h[e].Value)

isOne(h, e) ==
    /\ e # 0
    /\ h[e].tag = "BasicLit"
    /\ h[e].Kind \in {"INT", "FLOAT"}
    /\ oneRegexpMatch(h[e].Value)

isString(info, e) ==
    /\ e \in DOMAIN info.TypesInfo
    /\ TypeOf(info, e).class = "Basic"
    /\ TypeOf(info, e).Kind \in {"String", "UntypedString"}

\* the isBool closure of FloatComparisonInverter
isBool(info, e) ==
    /\ e \in DOMAIN info.TypesInfo
    /\ TypeOf(info, e).class = "Basic"
    /\ TypeOf(info, e).Kind = "Bool"

(***************************************************************************)
(* The mutators.  A mutator takes ParseInfo, a node and a Tester; here the *)
(* Tester is one that records the tree it is shown, and a mutator maps the *)
(* state st = [heap, tests] at its call to the state at its return.  Each  *)
(* write of the Go code is one EXCEPT on the arena, in the code's order.   *)
(***************************************************************************)
\* tester.Test() for the recording Tester
Test(st) == [st EXCEPT !.tests = Append(@, st.heap)]

\* a fresh node appended to the arena: [heap, tests] and its id
New(st, rec) == [st |-> [st EXCEPT !.heap = Append(@, rec)], id |-> Len(st.heap) + 1]

\* a pointer to a child slot: field f of node n, element i of it when i > 0
Slot(n, f, i) == [n |-> n, f |-> f, i |-> i]
Deref(h, p) == IF p.i = 0 THEN h[p.n][p.f] ELSE h[p.n][p.f][p.i]
Store(h, p, v) ==
    IF p.i = 0 THEN [h EXCEPT ![p.n][p.f] = v] ELSE [h EXCEPT ![p.n][p.f][p.i] = v]

\* copy(dst[i:], dst[i+1:]) on an array: the elements after the i-th move
\* one place down and the last stays where it is
ShiftedDown(arr, i) ==
    [k \in 1..Len(arr) |-> IF k >= i /\ k < Len(arr) THEN arr[k + 1] ELSE arr[k]]

\* a removal that shifts the elements inside the array of the list itself, as
\* append(list[:i], list[i+1:]...) does
RemovalInPlace(list, i) ==
    [mutation |-> SubSeq(ShiftedDown(list, i), 1, Len(list) - 1),
     old |-> ShiftedDown(list, i)]

\* mutation := make(...); copy(mutation, list); mutation =
\* mutation[:i+copy(mutation[i:], mutation[i+1:])], for the i-th element:
\* what the slice mutation holds afterwards, in an array of its own, and
\* what the slice list holds
Removal(list, i) ==
    LET copied == Len(list) - i
    IN [mutation |-> SubSeq(ShiftedDown(list, i), 1, (i - 1) + copied),
        old |-> list]

VoidCallRemoverMutator(info, n, st) ==
    IF ~covered(info, st.heap, n) THEN st
    ELSE IF st.heap[n].tag # "BlockStmt" THEN st
    ELSE LET list == st.heap[n].List
             RECURSIVE loop(_, _)
             loop(i, s) ==
                 IF i > Len(list) THEN s
                 ELSE LET stmt == list[i]
                      IN IF s.heap[stmt].tag # "ExprStmt" THEN loop(i + 1, s)
                         ELSE IF ~IsVoid(TypeOf(info, s.heap[stmt].X)) THEN loop(i + 1, s)
                         ELSE LET r == Removal(s.heap[n].List, i)
                                  s1 == [s EXCEPT !.heap[n].List = r.mutation]
                                  s2 == Test(s1)
                                  s3 == [s2 EXCEPT !.heap[n].List = r.old]
                              IN loop(i + 1, s3)
         IN loop(1, st)

\* a SwapSwitchCase that swaps clause i with clause i + 1 only, the last
\* clause with none
SwapNeighbourCases(info, n, st) ==
    IF ~covered(info, st.heap, n) THEN st
    ELSE IF st.heap[n].tag # "SwitchStmt" THEN st
    ELSE LET list == st.heap[st.heap[n].Body].List
             RECURSIVE loop(_, _)
             loop(i, s) ==
                 IF i >= Len(list) THEN s
                 ELSE LET a == list[i]
                          b == list[i + 1]
                      IN IF ~covered(info, s.heap, a) /\ ~covered(info, s.heap, b)
                         THEN loop(i + 1, s)
                         ELSE LET s1 == [s EXCEPT !.heap[a].Body = s.heap[b].Body,
                                                  !.heap[b].Body = s.heap[a].Body]
                                  s2 == Test(s1)
                                  s3 == [s2 EXCEPT !.heap[a].Body = s2.heap[b].Body,
                                                   !.heap[b].Body = s2.heap[a].Body]
                              IN loop(i + 1, s3)
         IN IF Len(list) < 2 THEN st ELSE loop(1, st)

\* a SwapSwitchCase that leaves each exchange in place when it goes on to the
\* next pair
SwapSwitchCaseUnrestored(info, n, st) ==
    IF ~covered(info, st.heap, n) THEN st
    ELSE IF st.heap[n].tag # "SwitchStmt" THEN st
    ELSE LET list == st.heap[st.heap[n].Body].List
             RECURSIVE loop(_, _)
             loop(i, s) ==
                 IF i > Len(list) THEN s
                 ELSE LET j == (i % Len(list)) + 1
                          a == list[i]
                          b == list[j]
                      IN IF ~covered(info, s.heap, a) /\ ~covered(info, s.heap, b)
                         THEN loop(i + 1, s)
                         ELSE LET s1 == [s EXCEPT !.heap[a].Body = s.heap[b].Body,
                                                  !.heap[b].Body = s.heap[a].Body]
                              IN loop(i + 1, Test(s1))
         IN IF Len(list) < 2 THEN st ELSE loop(1, st)

SwapSwitchCase(info, n, st) ==
    IF ~covered(info, st.heap, n) THEN st
    ELSE IF st.heap[n].tag # "SwitchStmt" THEN st
    ELSE LET list == st.heap[st.heap[n].Body].List
             RECURSIVE loop(_, _)
             loop(i, s) ==
                 IF i > Len(list) THEN s
                 ELSE LET j == (i % Len(list)) + 1
                          a == list[i]
                          b == list[j]
                      IN IF ~covered(info, s.heap, a) /\ ~covered(info, s.heap, b)
                         THEN loop(i + 1, s)
                         ELSE LET s1 == [s EXCEPT !.heap[a].Body = s.heap[b].Body,
                                                  !.heap[b].Body = s.heap[a].Body]
                                  s2 == Test(s1)
                                  s3 == [s2 EXCEPT !.heap[a].Body = s2.heap[b].Body,
                                                   !.heap[b].Body = s2.heap[a].Body]
                              IN loop(i + 1, s3)
         IN IF Len(list) < 2 THEN st ELSE loop(1, st)

\* SwapIfElse without its two restoring assignments
SwapIfElseNoRestore(info, n, st) ==
    IF ~covered(info, st.heap, n) THEN st
    ELSE IF st.heap[n].tag # "IfStmt" THEN st
    ELSE IF st.heap[n].Else = 0 THEN st
    ELSE LET el == st.heap[n].Else
         IN IF st.heap[el].tag # "BlockStmt" THEN st
            ELSE LET s1 == [st EXCEPT !.heap[n].Else = st.heap[n].Body]
                     s2 == [s1 EXCEPT !.heap[n].Body = el]
                 IN Test(s2)

SwapIfElse(info, n, st) ==
    IF ~covered(info, st.heap, n) THEN st
    ELSE IF st.heap[n].tag # "IfStmt" THEN st
    ELSE IF st.heap[n].Else = 0 THEN st
    ELSE LET el == st.heap[n].Else
         IN IF st.heap[el].tag # "BlockStmt" THEN st
            ELSE IF ~covered(info, st.heap, n) /\ ~covered(info, st.heap, el) THEN st
            ELSE LET s1 == [st EXCEPT !.heap[n].Else = st.heap[n].Body]
                     s2 == [s1 EXCEPT !.heap[n].Body = el]
                     s3 == Test(s2)
                     s4 == [s3 EXCEPT !.heap[n].Body = s3.heap[n].Else]
                 IN [s4 EXCEPT !.heap[n].Else = el]

conditionalsBoundaryMutatorTable ==
    [t \in {"<", "<=", ">", ">="} |->
        CASE t = "<" -> "<=" [] t = "<=" -> "<" [] t = ">" -> ">=" [] t = ">=" -> ">"]

mathMutatorTable ==
    [t \in {"+", "-", "*", "/", "%", "&", "|", "^", "<<", ">>"} |->
        CASE t = "+" -> "-" [] t = "-" -> "+"
          [] t = "*" -> "/" [] t = "/" -> "*"
          [] t = "%" -> "*"
          [] t = "&" -> "|" [] t = "|" -> "&"
          [] t = "^" -> "&"
          [] t = "<<" -> ">>" [] t = ">>" -> "<<"]

mathAssignementMutatorTable ==
    [t \in {"+=", "-=", "*=", "/=", "%=", "&=", "|=", "^=", "<<=", ">>="} |->
        CASE t = "+=" -> "-=" [] t = "-=" -> "+="
          [] t = "*=" -> "/=" [] t = "/=" -> "*="
          [] t = "%=" -> "*="
          [] t = "&=" -> "|=" [] t = "|=" -> "&="
          [] t = "^=" -> "&="
          [] t = "<<=" -> ">>=" [] t = ">>=" -> "<<="]

booleanMutatorTable ==
    [t \in {"&&", "||"} |-> CASE t = "&&" -> "||" [] t = "||" -> "&&"]

\* a table that sends >= and <= to the strict form of the same direction
negateConditionalsMixedTable ==
    [t \in {"==", "!=", "<", ">=", ">", "<="} |->
        CASE t = "==" -> "!=" [] t = "!=" -> "=="
          [] t = "<" -> ">=" [] t = ">=" -> ">"
          [] t = ">" -> "<=" [] t = "<=" -> "<"]

negateConditionalsMutatorTable ==
    [t \in {"==", "!=", "<", ">=", ">", "<="} |->
        CASE t = "==" -> "!=" [] t = "!=" -> "=="
          [] t = "<" -> ">=" [] t = ">=" -> "<"
          [] t = ">" -> "<=" [] t = "<=" -> ">"]

floatComparisonInverterMap ==
    [t \in {"==", "!=", "<", ">=", "<=", ">"} |->
        CASE t = "==" -> "!=" [] t = "!=" -> "=="
          [] t = "<" -> ">=" [] t = ">=" -> "<"
          [] t = "<=" -> ">" [] t = ">" -> "<="]

ConditionalsBoundaryMutator(info, n, st) ==
    IF ~covered(info, st.heap, n) THEN st
    ELSE IF st.heap[n].tag # "BinaryExpr" THEN st
    ELSE LET old == st.heap[n].Op
         IN IF old \notin DOMAIN conditionalsBoundaryMutatorTable THEN st
            ELSE LET s1 == [st EXCEPT !.heap[n].Op = conditionalsBoundaryMutatorTable[old]]
                     s2 == Test(s1)
                 IN [s2 EXCEPT !.heap[n].Op = old]

\* a MathMutator that undoes its change by looking the new operator up in
\* the table again
MathMutatorUndoingByTable(info, n, st) ==
    IF ~covered(info, st.heap, n) THEN st
    ELSE IF st.heap[n].tag # "BinaryExpr" THEN st
    ELSE IF st.heap[n].Op \notin DOMAIN mathMutatorTable THEN st
    ELSE LET s1 == [st EXCEPT !.heap[n].Op = mathMutatorTable[@]]
             s2 == Test(s1)
         IN [s2 EXCEPT !.heap[n].Op = mathMutatorTable[@]]

MathMutator(info, n, st) ==
    IF ~covered(info, st.heap, n) THEN st
    ELSE IF st.heap[n].tag # "BinaryExpr" THEN st
    ELSE LET expr == st.heap[n]
             old == expr.Op
         IN IF old \notin DOMAIN mathMutatorTable THEN st
            ELSE IF \/ /\ old = "+"
                       /\ (isZero(st.heap, expr.X) \/ isZero(st.heap, expr.Y)
                              \/ isString(info, expr.X))
                    \/ /\ old = "-"
                       /\ (isZero(st.heap, expr.X) \/ isZero(st.heap, expr.Y))
                    \/ /\ old = "*"
                       /\ (isOne(st.heap, expr.X) \/ isOne(st.heap, expr.Y))
                    \/ /\ old = "/"
                       /\ isOne(st.heap, expr.Y)
                 THEN st
                 ELSE LET s1 == [st EXCEPT !.heap[n].Op = mathMutatorTable[old]]
                          s2 == Test(s1)
                      IN [s2 EXCEPT !.heap[n].Op = old]

MathAssignMutator(info, n, st) ==
    IF ~covered(info, st.heap, n) THEN st
    ELSE IF st.heap[n].tag # "AssignStmt" THEN st
    ELSE LET assign == st.heap[n]
             old == assign.Tok
         IN IF old \notin DOMAIN mathAssignementMutatorTable THEN st
            ELSE IF Len(assign.Rhs) > 1 THEN st
            ELSE IF \/ old \in {"+=", "-="} /\ isZero(st.heap, assign.Rhs[1])
                    \/ old \in {"*=", "/="} /\ isOne(st.heap, assign.Rhs[1])
                 THEN st
                 ELSE LET s1 == [st EXCEPT !.heap[n].Tok = mathAssignementMutatorTable[old]]
                          s2 == Test(s1)
                      IN [s2 EXCEPT !.heap[n].Tok = old]

BooleanOperatorsMutator(info, n, st) ==
    IF ~covered(info, st.heap, n) THEN st
    ELSE IF st.heap[n].tag # "BinaryExpr" THEN st
    ELSE LET old == st.heap[n].Op
         IN IF old \notin DOMAIN booleanMutatorTable THEN st
            ELSE LET s1 == [st EXCEPT !.heap[n].Op = booleanMutatorTable[old]]
                     s2 == Test(s1)
                 IN [s2 EXCEPT !.heap[n].Op = old]

NegateConditionalsMutator(info, n, st) ==
    IF ~covered(info, st.heap, n) THEN st
    ELSE IF st.heap[n].tag # "BinaryExpr" THEN st
    ELSE LET old == st.heap[n].Op
         IN IF old \notin DOMAIN negateConditionalsMutatorTable THEN st
            ELSE LET s1 == [st EXCEPT !.heap[n].Op = negateConditionalsMutatorTable[old]]
                     s2 == Test(s1)
                 IN [s2 EXCEPT !.heap[n].Op = old]

DebugInspect(info, n, st) == st

\* copy(arr[i+1:], arr[i:]) inside one array: elements i.. move up by one
ShiftedUp(arr, i) ==
    [k \in 1..Len(arr) |-> IF k > i THEN arr[k - 1] ELSE arr[k]]

\* an insertion that leaves out the shift, so that the new element takes the
\* place of the i-th
InsertionWithoutShift(list, i, x) ==
    [nw |-> [Append(list, 0) EXCEPT ![i] = x], old |-> list]

\* nw := make(...); copy(nw, old); nw = append(nw, nil);
\* copy(nw[i+1:], nw[i:]); nw[i] = x: what the slice nw holds afterwards, in
\* an array of its own, and what the slice old holds
Insertion(list, i, x) ==
    LET copied == [k \in 1..Len(list) |-> list[k]]
        appended == Append(copied, 0)
    IN [nw |-> [ShiftedUp(appended, i) EXCEPT ![i] = x], old |-> list]

\* stmts points at the slot holding a statement slice (block.List or casec.Body)
returnValueMutator(stmts, info, st) ==
    LET list == Deref(st.heap, stmts)
        RECURSIVE results(_, _, _), loop(_, _)
        \* the inner loop over ret.Results of the return statement at index i
        results(i, k, s) ==
            LET rets == s.heap[list[i]].Results
            IN IF k > Len(rets) THEN s
               ELSE LET e == rets[k]
                    IN IF s.heap[e].tag = "BasicLit"
                       THEN IF s.heap[e].Kind \in {"INT", "FLOAT"}
                            THEN LET repl == IF zeroRegexpMatch(s.heap[e].Value)
                                             THEN <<"1">> ELSE <<"0">>
                                     old == s.heap[e].Value
                                     s1 == [s EXCEPT !.heap[e].Value = repl]
                                     s2 == Test(s1)
                                     s3 == [s2 EXCEPT !.heap[e].Value = old]
                                 IN results(i, k + 1, s3)
                            ELSE results(i, k + 1, s)
                       ELSE IF s.heap[e].tag = "Ident"
                       THEN IF TypeOf(info, e).class = "Basic"
                            THEN LET lhs == New(s, [tag |-> "Ident", pos |-> NoPos,
                                                    Name |-> "_"])
                                     rhs == New(lhs.st, [tag |-> "Ident", pos |-> NoPos,
                                                         Name |-> s.heap[e].Name])
                                     unusedAssign ==
                                         New(rhs.st, [tag |-> "AssignStmt", pos |-> NoPos,
                                                      Lhs |-> <<lhs.id>>, Tok |-> "=",
                                                      Rhs |-> <<rhs.id>>])
                                     r == Insertion(Deref(unusedAssign.st.heap, stmts),
                                                    i, unusedAssign.id)
                                     s1 == [unusedAssign.st EXCEPT
                                               !.heap = Store(@, stmts, r.nw)]
                                     s2 == Test(s1)
                                     s3 == [s2 EXCEPT !.heap = Store(@, stmts, r.old)]
                                 IN results(i, k + 1, s3)
                            ELSE results(i, k + 1, s)
                       ELSE results(i, k + 1, s)
        loop(i, s) ==
            IF i > Len(list) THEN s
            ELSE IF s.heap[list[i]].tag # "ReturnStmt" THEN loop(i + 1, s)
            ELSE loop(i + 1, results(i, 1, s))
    IN loop(1, st)

ReturnValueMutator(info, n, st) ==
    IF ~covered(info, st.heap, n) THEN st
    ELSE LET s1 == IF st.heap[n].tag = "BlockStmt"
                   THEN returnValueMutator(Slot(n, "List", 0), info, st)
                   ELSE st
         IN IF s1.heap[n].tag = "CaseClause"
            THEN returnValueMutator(Slot(n, "Body", 0), info, s1)
            ELSE s1

RECURSIVE floatComparisonInverterInPlace(_, _, _)
\* a floatComparisonInverter that inverts the operator of the comparison node
\* itself and wraps that node in the NOT
floatComparisonInverterInPlace(expr, info, st) ==
    LET e == Deref(st.heap, expr)
        tag == IF e = 0 THEN "nil" ELSE st.heap[e].tag
    IN IF tag = "BinaryExpr"
       THEN LET binary == st.heap[e]
            IN IF binary.Op \in {"||", "&&"}
               THEN floatComparisonInverterInPlace(Slot(e, "Y", 0), info,
                        floatComparisonInverterInPlace(Slot(e, "X", 0), info, st))
               ELSE IF binary.Op \in {"==", "<", ">", "!=", "<=", ">="}
               THEN LET tx == TypeOf(info, binary.X)
                        ty == TypeOf(info, binary.Y)
                    IN IF binary.X \notin DOMAIN info.TypesInfo THEN st
                       ELSE IF tx.class # "Basic" THEN st
                       ELSE IF tx.Kind \notin {"Float32", "Float64"} THEN st
                       ELSE IF binary.Y \notin DOMAIN info.TypesInfo THEN st
                       ELSE IF ty.class # "Basic" THEN st
                       ELSE IF ty.Kind # tx.Kind THEN st
                       ELSE LET not == New(st, [tag |-> "UnaryExpr", pos |-> NoPos,
                                                Op |-> "!", X |-> e])
                                s0 == [not.st EXCEPT
                                          !.heap[e].Op = floatComparisonInverterMap[binary.Op]]
                                s1 == [s0 EXCEPT !.heap = Store(@, expr, not.id)]
                                s2 == Test(s1)
                                s3 == [s2 EXCEPT !.heap = Store(@, expr, e)]
                            IN [s3 EXCEPT !.heap[e].Op = binary.Op]
               ELSE st
       ELSE IF tag = "UnaryExpr"
       THEN IF st.heap[e].Op # "!" THEN st
            ELSE floatComparisonInverterInPlace(Slot(e, "X", 0), info, st)
       ELSE IF tag = "ParenExpr"
       THEN floatComparisonInverterInPlace(Slot(e, "X", 0), info, st)
       ELSE st

RECURSIVE floatComparisonInverter(_, _, _)
\* expr points at the slot holding an expression
floatComparisonInverter(expr, info, st) ==
    LET e == Deref(st.heap, expr)
        tag == IF e = 0 THEN "nil" ELSE st.heap[e].tag
    IN IF tag = "BinaryExpr"
       THEN LET binary == st.heap[e]
            IN IF binary.Op \in {"||", "&&"}
               THEN floatComparisonInverter(Slot(e, "Y", 0), info,
                        floatComparisonInverter(Slot(e, "X", 0), info, st))
               ELSE IF binary.Op \in {"==", "<", ">", "!=", "<=", ">="}
               THEN LET tx == TypeOf(info, binary.X)
                        ty == TypeOf(info, binary.Y)
                    IN IF binary.X \notin DOMAIN info.TypesInfo THEN st
                       ELSE IF tx.class # "Basic" THEN st
                       ELSE IF tx.Kind \notin {"Float32", "Float64"} THEN st
                       ELSE IF binary.Y \notin DOMAIN info.TypesInfo THEN st
                       ELSE IF ty.class # "Basic" THEN st
                       ELSE IF ty.Kind # tx.Kind THEN st
                       ELSE LET old == e
                                inner == New(st, [tag |-> "BinaryExpr", pos |-> NoPos,
                                                  X |-> binary.X,
                                                  Op |-> floatComparisonInverterMap[binary.Op],
                                                  Y |-> binary.Y])
                                not == New(inner.st, [tag |-> "UnaryExpr", pos |-> NoPos,
                                                      Op |-> "!", X |-> inner.id])
                                s1 == [not.st EXCEPT !.heap = Store(@, expr, not.id)]
                                s2 == Test(s1)
                            IN [s2 EXCEPT !.heap = Store(@, expr, old)]
               ELSE st
       ELSE IF tag = "UnaryExpr"
       THEN IF st.heap[e].Op # "!" THEN st
            ELSE floatComparisonInverter(Slot(e, "X", 0), info, st)
       ELSE IF tag = "ParenExpr"
       THEN floatComparisonInverter(Slot(e, "X", 0), info, st)
       ELSE st

FloatComparisonInverter(info, n, st) ==
    IF ~covered(info, st.heap, n) THEN st
    ELSE LET RECURSIVE exprs(_, _, _, _), stmts(_, _)
             \* the loop over the slice in field f of statement s; a non-bool
             \* element returns from FloatComparisonInverter as a whole
             exprs(stmt, f, j, s) ==
                 IF j > Len(s.heap[stmt][f]) THEN [st |-> s, returned |-> FALSE]
                 ELSE IF ~isBool(info, s.heap[stmt][f][j]) THEN [st |-> s, returned |-> TRUE]
                 ELSE exprs(stmt, f, j + 1,
                            floatComparisonInverter(Slot(stmt, f, j), info, s))
             stmts(i, s) ==
                 IF i > Len(s.heap[n].List) THEN [st |-> s, returned |-> FALSE]
                 ELSE LET stmt == s.heap[n].List[i]
                          r == IF s.heap[stmt].tag = "AssignStmt" THEN exprs(stmt, "Rhs", 1, s)
                               ELSE IF s.heap[stmt].tag = "CaseClause"
                                    THEN exprs(stmt, "List", 1, s)
                                    ELSE [st |-> s, returned |-> FALSE]
                      IN IF r.returned THEN r ELSE stmts(i + 1, r.st)
             b == IF st.heap[n].tag = "BlockStmt" THEN stmts(1, st)
                  ELSE [st |-> st, returned |-> FALSE]
             s1 == b.st
             s2 == IF s1.heap[n].tag = "IfStmt"
                   THEN floatComparisonInverter(Slot(n, "Cond", 0), info, s1)
                   ELSE s1
         IN IF b.returned THEN s1
            ELSE IF s2.heap[n].tag = "SendStmt"
            THEN IF ~isBool(info, s2.heap[n].Value) THEN s2
                 ELSE floatComparisonInverter(Slot(n, "Value", 0), info, s2)
            ELSE s2

\* the catalogue: Mutators of src/mutators.go plus ReturnValueMutator
MutatorNames ==
    {"voidrm", "swapifelse", "swapswitch", "condbound", "mathop", "boolop",
     "mathopassign", "negcond", "floatcompinv", "inspect", "retval"}

\* the mutators the drawn command lines name
QueueMutators == {"mathopassign", "voidrm"}

\* the call v.mutator(v.parseInfo, node, &v.tester) for one of those
MutateQueued(m, info, n, st) ==
    CASE m = "voidrm"       -> VoidCallRemoverMutator(info, n, st)
      [] m = "mathopassign" -> MathAssignMutator(info, n, st)

\* the call v.mutator(v.parseInfo, node, &v.tester) for the mutator of that name
Mutate(m, info, n, st) ==
    CASE m \in QueueMutators -> MutateQueued(m, info, n, st)
      [] m = "swapifelse"   -> SwapIfElse(info, n, st)
      [] m = "swapswitch"   -> SwapSwitchCase(info, n, st)
      [] m = "condbound"    -> ConditionalsBoundaryMutator(info, n, st)
      [] m = "mathop"       -> MathMutator(info, n, st)
      [] m = "boolop"       -> BooleanOperatorsMutator(info, n, st)
      [] m = "negcond"      -> NegateConditionalsMutator(info, n, st)
      [] m = "floatcompinv" -> FloatComparisonInverter(info, n, st)
      [] m = "inspect"      -> DebugInspect(info, n, st)
      [] m = "retval"       -> ReturnValueMutator(info, n, st)

(***************************************************************************)
(* Drawn inputs: small syntax trees, as the parser and the type checker    *)
(* deliver them for code that compiles, and the lines the coverage run     *)
(* found executed.                                                         *)
(***************************************************************************)
At(l) == [Line |-> l, Column |-> 1]

Ident(name, tv, l) == [tag |-> "Ident", pos |-> At(l), tv |-> tv, Name |-> name]
BasicLit(kind, value, tv, l) ==
    [tag |-> "BasicLit", pos |-> At(l), tv |-> tv, Kind |-> kind, Value |-> value]
BinaryExpr(x, op, y, tv, l) ==
    [tag |-> "BinaryExpr", pos |-> At(l), tv |-> tv, X |-> x, Op |-> op, Y |-> y]
UnaryExpr(op, x, tv, l) == [tag |-> "UnaryExpr", pos |-> At(l), tv |-> tv, Op |-> op, X |-> x]
ParenExpr(x, tv, l) == [tag |-> "ParenExpr", pos |-> At(l), tv |-> tv, X |-> x]
CallExpr(name, tv, l) ==
    [tag |-> "CallExpr", pos |-> At(l), tv |-> tv, Fun |-> Ident(name, NoTV, l)]
ExprStmt(x, l) == [tag |-> "ExprStmt", pos |-> At(l), tv |-> NoTV, X |-> x]
ReturnStmt(results, l) ==
    [tag |-> "ReturnStmt", pos |-> At(l), tv |-> NoTV, Results |-> results]
AssignStmt(lhs, tok, rhs, l) ==
    [tag |-> "AssignStmt", pos |-> At(l), tv |-> NoTV, Lhs |-> lhs, Tok |-> tok, Rhs |-> rhs]
BlockStmt(list, l) == [tag |-> "BlockStmt", pos |-> At(l), tv |-> NoTV, List |-> list]
IfStmt(cond, body, else, l) ==
    [tag |-> "IfStmt", pos |-> At(l), tv |-> NoTV, Cond |-> cond, Body |-> body, Else |-> else]
CaseClause(list, body, l) ==
    [tag |-> "CaseClause", pos |-> At(l), tv |-> NoTV, List |-> list, Body |-> body]
SwitchStmt(body, l) == [tag |-> "SwitchStmt", pos |-> At(l), tv |-> NoTV, Body |-> body]
SendStmt(chan, value, l) ==
    [tag |-> "SendStmt", pos |-> At(l), tv |-> NoTV, Chan |-> chan, Value |-> value]

\* one covered block per executed line, in line order
RECURSIVE BlocksOf(_, _)
BlocksOf(lines, upto) ==
    IF upto = 0 THEN <<>>
    ELSE BlocksOf(lines, upto - 1) \o
         (IF upto \in lines
          THEN <<[StartLine |-> upto, StartCol |-> 1, EndLine |-> upto, EndCol |-> 80,
                  Count |-> 1]>>
          ELSE <<>>)

Txt0 == <<"0">>
Txt1 == <<"1">>
Txt5 == <<"5">>
TxtHalf == <<"0", ".", "5">>
TxtOneDot == <<"1", ".", "0">>
TxtZeroDot == <<"0", ".", "0">>
TxtEmptyString == <<"\"", "\"">>

\* operands of one type, on line l, and the binary operators that type allows
IntOperands(l) ==
    {Ident("x", Basic("Int"), l)}
        \cup {BasicLit("INT", t, Basic("Int"), l) : t \in {Txt0, Txt1, Txt5}}
FloatOperands(l) ==
    {Ident("f", Basic("Float64"), l)}
        \cup {BasicLit("INT", t, Basic("Float64"), l) : t \in {Txt0, Txt1}}
        \cup {BasicLit("FLOAT", t, Basic("Float64"), l) : t \in {TxtHalf, TxtOneDot, TxtZeroDot}}
StringOperands(l) ==
    {Ident("s", Basic("String"), l),
     BasicLit("STRING", TxtEmptyString, Basic("UntypedString"), l)}
BoolOperands(l) == {Ident("b", Basic("Bool"), l), Ident("c", Basic("Bool"), l)}

Comparisons == {"==", "!=", "<", "<=", ">", ">="}
IntOps == {"+", "-", "*", "/", "%", "&", "|", "^", "<<", ">>", "&^"} \cup Comparisons
FloatOps == {"+", "-", "*", "/"} \cup Comparisons
StringOps == {"+"} \cup Comparisons
BoolOps == {"&&", "||", "==", "!="}

\* the type the checker records for x op y
ResultType(op, x) == IF op \in Comparisons \cup {"&&", "||"} THEN Basic("Bool") ELSE x.tv

BinaryExprs(l) ==
    {BinaryExpr(x, op, y, ResultType(op, x), l) :
        x \in IntOperands(l), y \in IntOperands(l), op \in IntOps}
    \cup {BinaryExpr(x, op, y, ResultType(op, x), l) :
        x \in FloatOperands(l), y \in FloatOperands(l), op \in FloatOps}
    \cup {BinaryExpr(x, op, y, ResultType(op, x), l) :
        x \in StringOperands(l), y \in StringOperands(l), op \in StringOps}
    \cup {BinaryExpr(x, op, y, ResultType(op, x), l) :
        x \in BoolOperands(l), y \in BoolOperands(l), op \in BoolOps}

AssignToks == {"=", "+=", "-=", "*=", "/=", "%=", "&=", "|=", "^=", "<<=", ">>=", "&^="}

AssignStmts(l) ==
    {AssignStmt(<<Ident("x", Basic("Int"), l)>>, tok, <<rhs>>, l) :
        tok \in AssignToks, rhs \in IntOperands(l)}
    \cup {AssignStmt(<<Ident("f", Basic("Float64"), l)>>, tok, <<rhs>>, l) :
        tok \in {"=", "+=", "-=", "*=", "/="}, rhs \in FloatOperands(l)}
    \cup {AssignStmt(<<Ident("x", Basic("Int"), l), Ident("y", Basic("Int"), l)>>, "=",
                     <<BasicLit("INT", Txt0, Basic("Int"), l),
                       BasicLit("INT", Txt1, Basic("Int"), l)>>, l)}

\* f op g on two float64 variables
FloatCmp(op, l) ==
    BinaryExpr(Ident("f", Basic("Float64"), l), op, Ident("g", Basic("Float64"), l),
               Basic("Bool"), l)
IntCmp(op, l) ==
    BinaryExpr(Ident("x", Basic("Int"), l), op, BasicLit("INT", Txt5, Basic("Int"), l),
               Basic("Bool"), l)

\* boolean expressions, on line l
Conds(l) ==
    {Ident("b", Basic("Bool"), l),
     FloatCmp("<", l),
     IntCmp("<", l),
     UnaryExpr("!", ParenExpr(FloatCmp("<=", l), Basic("Bool"), l), Basic("Bool"), l),
     BinaryExpr(FloatCmp("==", l), "&&", IntCmp(">", l), Basic("Bool"), l),
     BinaryExpr(FloatCmp("!=", l), "||", FloatCmp(">=", l), Basic("Bool"), l)}

VoidCall(l) == ExprStmt(CallExpr("Moo", VoidTV, l), l)
ValueCall(l) == ExprStmt(CallExpr("Maa", Basic("Int"), l), l)
UntypedCall(l) == ExprStmt(CallExpr("Mee", NoTV, l), l)

IfStmts ==
    {IfStmt(cond, BlockStmt(<<VoidCall(2)>>, 2), else, 1) :
        cond \in Conds(1),
        else \in {NilNode,
                  BlockStmt(<<ValueCall(3)>>, 3),
                  IfStmt(Ident("c", Basic("Bool"), 3), BlockStmt(<<UntypedCall(3)>>, 3),
                         NilNode, 3)}}

\* the text of the literal a drawn case clause returns: 1, 10, 100, ...
RECURSIVE CaseText(_)
CaseText(i) == IF i = 1 THEN Txt1 ELSE Append(CaseText(i - 1), "0")

\* clause i of a drawn switch, on line i + 1; the guards are integer literals or
\* float comparisons, and the last clause may be the default
Clause(i, n, guards, dflt) ==
    CaseClause(IF dflt /\ i = n THEN <<>>
               ELSE IF guards = "int" THEN <<BasicLit("INT", CaseText(i), Basic("Int"), i + 1)>>
               ELSE <<FloatCmp(IF i % 2 = 1 THEN "==" ELSE "<", i + 1)>>,
               <<ReturnStmt(<<BasicLit("INT", CaseText(i), Basic("Int"), i + 1)>>, i + 1)>>,
               i + 1)

\* clauses 1..k of a drawn switch of n clauses
RECURSIVE Clauses(_, _, _, _)
Clauses(k, n, guards, dflt) ==
    IF k = 0 THEN <<>>
    ELSE Append(Clauses(k - 1, n, guards, dflt), Clause(k, n, guards, dflt))

SwitchStmts(n) ==
    {SwitchStmt(BlockStmt(Clauses(n, n, guards, dflt), 1), 1) :
        guards \in {"int", "float"}, dflt \in BOOLEAN}

\* statements on line l
Stmts(l) ==
    {VoidCall(l),
     ReturnStmt(<<BasicLit("FLOAT", TxtHalf, Basic("Float64"), l),
                  Ident("x", Basic("Int"), l)>>, l),
     ReturnStmt(<<BasicLit("INT", Txt0, Basic("Int"), l), Ident("p", NamedTV, l)>>, l),
     AssignStmt(<<Ident("b", Basic("Bool"), l)>>, "=", <<FloatCmp("<", l)>>, l),
     AssignStmt(<<Ident("x", Basic("Int"), l)>>, "=",
                <<BasicLit("INT", Txt5, Basic("Int"), l)>>, l),
     SendStmt(Ident("ch", NamedTV, l), FloatCmp(">", l), l)}

\* the statement lists of length k, statement i on line i + 1
RECURSIVE StmtLists(_)
StmtLists(k) ==
    IF k = 0 THEN {<<>>}
    ELSE {Append(l, s) : l \in StmtLists(k - 1), s \in Stmts(k + 1)}

\* the body of func cmp(f, g float64) bool { return f < g }
CmpBody == BlockStmt(<<ReturnStmt(<<FloatCmp("<", 2)>>, 2)>>, 1)

\* the body { Moo(); return x, s } with x an int and s a string
RetBody ==
    BlockStmt(<<VoidCall(2),
                ReturnStmt(<<Ident("x", Basic("Int"), 3), Ident("s", Basic("String"), 3)>>, 3)>>,
              1)

\* every drawn input: a tree, the number of lines it spans, and how deep below
\* the root the node handed to the mutator may lie
Inputs ==
    [tree : BinaryExprs(1) \cup AssignStmts(1), lines : {1}, depth : {0}]
    \cup [tree : IfStmts, lines : {3}, depth : {2}]
    \cup UNION {[tree : SwitchStmts(n), lines : {n + 1}, depth : {2}] : n \in 0..MaxCases}
    \cup UNION {[tree : {BlockStmt(l, 1) : l \in StmtLists(k)}, lines : {k + 1}, depth : {1}] :
                   k \in 0..MaxList}
    \cup [tree : {CmpBody}, lines : {2}, depth : {2}]
    \cup [tree : {RetBody}, lines : {3}, depth : {1}]

RECURSIVE Within(_, _, _)
\* the ids of the nodes at most d levels below node id
Within(h, id, d) ==
    {id} \cup (IF d = 0 THEN {}
               ELSE UNION {Within(h, c, d - 1) : c \in Range(Children(h, id))})

(***************************************************************************)
(* SpecOp: one call of Visit, with one mutator, on one node of a drawn     *)
(* tree.                                                                   *)
(***************************************************************************)
\* the variables of the literal predicates, at rest
LitIdle ==
    /\ lit = [tag |-> "BasicLit", pos |-> NoPos, Kind |-> "INT", Value |-> Txt0]
    /\ litres = [done |-> FALSE, zero |-> FALSE, one |-> FALSE]

\* the variables of the program's start, once main has started its workers
CfgIdle ==
    /\ osargs = [help |-> FALSE, mutations |-> <<>>, args |-> <<>>, gopath |-> TRUE,
                 wd |-> <<>>]
    /\ boot = [pc |-> "launched", status |-> -1,
               cfg |-> [pkg |-> <<>>, gopath |-> <<>>, pkgFull |-> <<>>, mutations |-> <<>>]]

\* the variables of the coverage profile, at rest
CovIdle ==
    /\ cover = [Blocks |-> <<>>, pos |-> NoPos]
    /\ covres = [asked |-> FALSE, covered |-> FALSE, filtered |-> FALSE, Blocks |-> <<>>]

\* the variables of a mutator call, at rest
OpIdle ==
    /\ heap = <<>>
    /\ orig = <<>>
    /\ parseInfo = [CoveredBlocks |-> <<>>, TypesInfo |-> <<>>]
    /\ node = 0
    /\ tests = <<>>
    /\ ran = "none"

\* the variables of a run of the program, at rest
RunIdle ==
    /\ queue = <<>>
    /\ wk = <<>>
    /\ disk = <<>>
    /\ closed = FALSE
    /\ res = [alive |-> 0, total |-> 0, skipped |-> 0]
    /\ sigs = "none"
    /\ wg = "waiting"
    /\ proc = "exited"
    /\ taken = <<>>
    /\ sent = EmptyBag

InitOp ==
    /\ \E inp \in Inputs : \E covlines \in SUBSET (1..inp.lines) :
          LET a == Load(inp.tree)
          IN /\ heap = a.nodes
             /\ orig = a.nodes
             /\ parseInfo = [CoveredBlocks |-> BlocksOf(covlines, inp.lines),
                             TypesInfo |-> a.types]
             /\ node \in {0} \cup Within(a.nodes, a.id, inp.depth)
    /\ tests = <<>>
    /\ ran = "none"
    /\ LitIdle
    /\ RunIdle
    /\ CfgIdle
    /\ CovIdle

\* visitor.Visit: a nil node is skipped, any other goes to the mutator
Visit(m) ==
    /\ ran = "none"
    /\ ran' = m
    /\ IF node = 0
       THEN UNCHANGED <<heap, tests>>
       ELSE LET st == Mutate(m, parseInfo, node, [heap |-> heap, tests |-> <<>>])
            IN heap' = st.heap /\ tests' = st.tests
    /\ UNCHANGED <<parseInfo, node, orig, lit, litres, osargs, boot, cover, covres>>
    /\ UNCHANGED runVars

NextOp == \E m \in MutatorNames : Visit(m)

SpecOp == InitOp /\ [][NextOp]_vars

(***************************************************************************)
(* SpecLit: isZero and isOne applied to one drawn expression: a literal    *)
(* the Go scanner accepts, of any kind, or an identifier.                  *)
(***************************************************************************)
Digits == {"0", "1", "5", "7"}
LitChars == Digits \cup {".", "x", "i"}

IsDigits(t) == \A i \in DOMAIN t : t[i] \in Digits

\* decimal and octal integers, and hexadecimal ones
ValidInt(t) ==
    \/ Len(t) >= 1 /\ IsDigits(t)
    \/ Len(t) >= 3 /\ t[1] = "0" /\ t[2] = "x" /\ IsDigits(SubSeq(t, 3, Len(t)))

\* digits, a point, digits; at least one digit
ValidFloat(t) ==
    /\ Len(t) >= 2
    /\ \E k \in DOMAIN t :
          /\ t[k] = "."
          /\ IsDigits(SubSeq(t, 1, k - 1))
          /\ IsDigits(SubSeq(t, k + 1, Len(t)))

ValidImag(t) ==
    /\ Len(t) >= 2
    /\ t[Len(t)] = "i"
    /\ LET re == SubSeq(t, 1, Len(t) - 1) IN IsDigits(re) \/ ValidFloat(re)

DrawnExprs ==
    {[tag |-> "BasicLit", pos |-> NoPos, Kind |-> "INT", Value |-> t] :
        t \in {u \in SeqsUpTo(LitChars, MaxLen) : ValidInt(u)}}
    \cup {[tag |-> "BasicLit", pos |-> NoPos, Kind |-> "FLOAT", Value |-> t] :
        t \in {u \in SeqsUpTo(LitChars, MaxLen) : ValidFloat(u)}}
    \cup {[tag |-> "BasicLit", pos |-> NoPos, Kind |-> "IMAG", Value |-> t] :
        t \in {u \in SeqsUpTo(LitChars, MaxLen) : ValidImag(u)}}
    \cup {[tag |-> "BasicLit", pos |-> NoPos, Kind |-> "STRING", Value |-> t] :
        t \in {TxtEmptyString, <<"\"", "0", "\"">>}}
    \cup {[tag |-> "Ident", pos |-> NoPos, Name |-> "x"]}

InitLit ==
    /\ lit \in DrawnExprs
    /\ litres = [done |-> FALSE, zero |-> FALSE, one |-> FALSE]
    /\ OpIdle
    /\ RunIdle
    /\ CfgIdle
    /\ CovIdle

\* isZero(e) and isOne(e) for the drawn expression
Classify ==
    /\ ~litres.done
    /\ litres' = [done |-> TRUE, zero |-> isZero(<<lit>>, 1), one |-> isOne(<<lit>>, 1)]
    /\ UNCHANGED <<lit, heap, parseInfo, node, orig, tests, ran, osargs, boot, cover, covres>>
    /\ UNCHANGED runVars

NextLit == Classify

SpecLit == InitLit /\ [][NextLit]_vars

(***************************************************************************)
(* Spec: one run of the program (src/cmd/godzilla/main.go).  main loads    *)
(* the queue c, starts the workers and sums what they send on results; a   *)
(* worker parses the package, copies it to its mutantDir, and walks every  *)
(* file with every mutator it receives; Test() writes the file under       *)
(* mutation, builds, and runs the tests.                                   *)
(***************************************************************************)
\* the worker goroutines main starts, one per CPU
Workers == {"w0", "w1"}

\* one directory handed to every worker
sharedDir(w) == <<"godzilla">>
\* the directory main makes for worker w and hands to it as mutantDir:
\* filepath.Join(tmpDir, "godzilla"+strconv.Itoa(n))
mutantDir(w) == <<"godzilla", w>>
\* the directories under tmpDir
Dirs == {mutantDir(w) : w \in Workers}

\* file names, split where strings.HasSuffix(name, "_test.go") looks
GoFile(stem) == [stem |-> stem, suffix |-> ".go"]
GoTestFile(stem) == [stem |-> stem, suffix |-> "_test.go"]
NoFile == [stem |-> "", suffix |-> ""]
HasTestSuffix(name) == name.suffix = "_test.go"

FuncDecl(name, body, l) ==
    [tag |-> "FuncDecl", pos |-> At(l), tv |-> NoTV, Name |-> name, Body |-> body]
File(decls, l) == [tag |-> "File", pos |-> At(l), tv |-> NoTV, Name |-> "p", Decls |-> decls]

\* the package under test: two source files and a test file of package p
\* (the test file holds no declaration)
PkgFiles == <<GoFile("a"), GoFile("b"), GoTestFile("a")>>
PkgTrees ==
    <<File(<<FuncDecl("inc",
                      BlockStmt(<<AssignStmt(<<Ident("x", Basic("Int"), 2)>>, "+=",
                                             <<Ident("y", Basic("Int"), 2)>>, 2)>>, 1), 1)>>, 1),
      File(<<FuncDecl("run", BlockStmt(<<VoidCall(2)>>, 1), 1)>>, 1),
      File(<<>>, 1)>>

\* parser.ParseDir and conf.Check on the package: one arena and one
\* types.Info for all its files, and the root of each file
Parsed ==
    LET facts == TypeFactsAll(PkgTrees)
    IN [nodes |-> NodesAll(PkgTrees, 0),
        types |-> [i \in {j \in DOMAIN facts : facts[j].mode # "missing"} |-> facts[i]],
        roots |-> IdsFrom(PkgTrees, 0)]

\* pkg.Files[name]
FileRoot(name) == Parsed.roots[CHOOSE i \in DOMAIN PkgFiles : PkgFiles[i] = name]

\* w.coverprofiles: the covered blocks of each source file the coverage run saw
coverprofiles == [name \in {GoFile("a"), GoFile("b")} |-> BlocksOf({1, 2}, 2)]

\* the blocks worker.Mutate finds for a file: nil when no profile matches
BlocksFor(name) == IF name \in DOMAIN coverprofiles THEN coverprofiles[name] ELSE <<>>

RECURSIVE Format(_, _), FormatList(_, _, _)
\* format.Node: the tokens of the tree under node id
Format(h, id) ==
    IF id = 0 THEN <<>>
    ELSE LET n == h[id]
         IN CASE n.tag = "Ident"      -> <<n.Name>>
              [] n.tag = "BasicLit"   -> n.Value
              [] n.tag = "BinaryExpr" -> Format(h, n.X) \o <<n.Op>> \o Format(h, n.Y)
              [] n.tag = "UnaryExpr"  -> <<n.Op>> \o Format(h, n.X)
              [] n.tag = "ParenExpr"  -> <<"(">> \o Format(h, n.X) \o <<")">>
              [] n.tag = "CallExpr"   -> Format(h, n.Fun) \o <<"(", ")">>
              [] n.tag = "ExprStmt"   -> Format(h, n.X) \o <<";">>
              [] n.tag = "ReturnStmt" -> <<"return">> \o FormatList(h, n.Results, <<",">>) \o <<";">>
              [] n.tag = "AssignStmt" ->
                    FormatList(h, n.Lhs, <<",">>) \o <<n.Tok>> \o FormatList(h, n.Rhs, <<",">>)
                        \o <<";">>
              [] n.tag = "SendStmt"   -> Format(h, n.Chan) \o <<"<-">> \o Format(h, n.Value) \o <<";">>
              [] n.tag = "BlockStmt"  -> <<"{">> \o FormatList(h, n.List, <<>>) \o <<"}">>
              [] n.tag = "IfStmt"     ->
                    <<"if">> \o Format(h, n.Cond) \o Format(h, n.Body)
                        \o (IF n.Else = 0 THEN <<>> ELSE <<"else">> \o Format(h, n.Else))
              [] n.tag = "CaseClause" ->
                    (IF n.List = <<>> THEN <<"default">>
                     ELSE <<"case">> \o FormatList(h, n.List, <<",">>))
                        \o <<":">> \o FormatList(h, n.Body, <<>>)
              [] n.tag = "SwitchStmt" -> <<"switch">> \o Format(h, n.Body)
              [] n.tag = "FuncDecl"   -> <<"func", n.Name, "(", ")">> \o Format(h, n.Body)
              [] n.tag = "File"       -> <<"package", n.Name, ";">> \o FormatList(h, n.Decls, <<>>)
\* the nodes ids one after the other, sep between two of them
FormatList(h, ids, sep) ==
    IF ids = <<>> THEN <<>>
    ELSE IF Len(ids) = 1 THEN Format(h, ids[1])
    ELSE Format(h, Head(ids)) \o sep \o FormatList(h, Tail(ids), sep)

\* the result type, and what tester.Test and main do to it
ZeroResult == [alive |-> 0, total |-> 0, skipped |-> 0]
\* a failed build that leaves no trace in the result
BuildFailedUncounted(r) == r
\* a failed build counted as a mutant that was also run
BuildFailedCounted(r) == [r EXCEPT !.skipped = @ + 1, !.total = @ + 1]
\* go build failed: t.result.skipped++
BuildFailed(r) == [r EXCEPT !.skipped = @ + 1]
\* go test is started: t.result.total++
TestStarted(r) == [r EXCEPT !.total = @ + 1]
\* go test exited with 0: t.result.alive++
Survived(r) == [r EXCEPT !.alive = @ + 1]
\* a loop body that adds alive and total only
AggregateWithoutSkipped(sum, r) ==
    [alive |-> sum.alive + r.alive, total |-> sum.total + r.total,
     skipped |-> sum.skipped]
\* the body of main's loop over results
Aggregate(sum, r) ==
    [alive |-> sum.alive + r.alive, total |-> sum.total + r.total,
     skipped |-> sum.skipped + r.skipped]

\* c after main has filled it: entry id holds the mutator ms[id]
Loaded(ms) == [id \in DOMAIN ms |-> [id |-> id, m |-> ms[id]]]

\* a receive that leaves the value in the channel
ReceiveKeeping(q) == [val |-> Head(q), rest |-> q]
\* a receive from a channel holding q: the value received and what is left
Receive(q) == [val |-> Head(q), rest |-> Tail(q)]

\* a worker goroutine at its start.  calls and written count the Test()
\* calls made on the current tester and those of them that wrote their file;
\* walk holds the arguments of the Visit calls ast.Walk has still to make and
\* seen the nodes the visitor has handed to its mutator in the current walk.
NewWorker ==
    [pc |-> "start", m |-> "none", todo |-> {}, name |-> NoFile, walk |-> <<>>,
     seen |-> <<>>, pending |-> <<>>, heap |-> <<>>, result |-> ZeroResult,
     calls |-> 0, written |-> 0]

\* the goroutines of a process that has ended
Gone == [w \in Workers |-> [NewWorker EXCEPT !.pc = "gone"]]

\* node n was handed to the mutator before the calls of v
Called(n, v) == [v EXCEPT !.seen = <<n>> \o @]

\* a visitor whose Visit returns nil once its mutator has returned, so that
\* ast.Walk goes no further
VisitedAndStopped(m, info, nodes, st) ==
    [walk |-> <<>>, heap |-> st.heap, pending |-> st.tests, seen |-> <<Head(nodes)>>]

RECURSIVE Visits(_, _, _, _)
\* what ast.Walk does once Visit has handed Head(nodes) to the mutator and
\* the mutator has left st: it stops there when the mutator called Test()
Visited(m, info, nodes, st) ==
    IF st.tests = <<>> THEN Called(Head(nodes), Visits(m, info, Tail(nodes), st.heap))
    ELSE [walk |-> Tail(nodes), heap |-> st.heap, pending |-> st.tests,
          seen |-> <<Head(nodes)>>]

\* ast.Walk making the Visit calls still to make: Visit returns at once for
\* nil and hands every other node to the mutator, up to the first call in
\* which the mutator calls Test(); what is left to visit, the arena after
\* that call, the trees that call shows to Test(), and the nodes handed over
Visits(m, info, nodes, h) ==
    IF nodes = <<>> THEN [walk |-> <<>>, heap |-> h, pending |-> <<>>, seen |-> <<>>]
    ELSE IF Head(nodes) = 0 THEN Visits(m, info, Tail(nodes), h)
    ELSE Visited(m, info, nodes,
                 MutateQueued(m, info, Head(nodes), [heap |-> h, tests |-> <<>>]))

\* worker r when its walk has come to v: at a Test() call, or at the end of
\* the file, where the result is sent
Walked(r, v) ==
    [r EXCEPT !.walk = v.walk,
              !.seen = @ \o v.seen,
              !.heap = v.heap,
              !.pending = v.pending,
              !.pc = IF v.pending = <<>> THEN "send" ELSE "write"]

\* ast.Walk(v, file) in worker r, from where it stands to the next Test()
\* call of the mutator, or to the end of the file
Walk(r) ==
    Walked(r, Visits(r.m, [CoveredBlocks |-> BlocksFor(r.name), TypesInfo |-> Parsed.types],
                     r.walk, r.heap))

\* a Test() whose end ends the worker
ReturnFromWorker(r) == [r EXCEPT !.pending = <<>>, !.pc = "returned"]

\* Test() returns to the mutator, which calls Test() again or returns to
\* ast.Walk
Return(r) ==
    IF Len(r.pending) > 1
    THEN [r EXCEPT !.pending = Tail(@), !.pc = "write"]
    ELSE Walk([r EXCEPT !.pending = <<>>])

Init ==
    /\ \E ms \in SeqsUpTo(QueueMutators, MaxOps) \ {<<>>} : queue = Loaded(ms)
    /\ wk = [w \in Workers |-> NewWorker]
    /\ disk = [d \in Dirs |-> <<>>]
    /\ closed = FALSE
    /\ res = ZeroResult
    /\ sigs = "none"
    /\ wg = "waiting"
    /\ proc = "running"
    /\ taken = <<>>
    /\ sent = EmptyBag
    /\ OpIdle
    /\ LitIdle
    /\ CfgIdle
    /\ CovIdle

\* a worker.Mutate that copies only the files it is going to mutate
PrepareWithoutTestFiles(w) ==
    /\ proc = "running"
    /\ wk[w].pc = "start"
    /\ wk' = [wk EXCEPT ![w].pc = "range", ![w].heap = Parsed.nodes]
    /\ disk' = [disk EXCEPT ![mutantDir(w)] =
                  [name \in {n \in Range(PkgFiles) : ~HasTestSuffix(n)} |->
                      Format(Parsed.nodes, FileRoot(name))]]
    /\ UNCHANGED <<queue, closed, res, sigs, wg, proc, taken, sent>>
    /\ UNCHANGED <<opVars, litVars, cfgVars, covVars>>

\* a worker whose early returns do not reach wg.Done(): after a failed type
\* check or snapshot write its goroutine is never counted as finished
PrepareWithoutDone(w) ==
    /\ proc = "running"
    /\ wk[w].pc = "start"
    /\ \E outcome \in {"ok", "failed"} :
          IF outcome = "ok"
          THEN /\ wk' = [wk EXCEPT ![w].pc = "range", ![w].heap = Parsed.nodes]
               /\ disk' = [disk EXCEPT ![mutantDir(w)] =
                             [name \in Range(PkgFiles) |-> Format(Parsed.nodes, FileRoot(name))]]
          ELSE /\ wk' = [wk EXCEPT ![w].pc = "undone"]
               /\ UNCHANGED disk
    /\ UNCHANGED <<queue, closed, res, sigs, wg, proc, taken, sent>>
    /\ UNCHANGED <<opVars, litVars, cfgVars, covVars>>

\* worker.Mutate up to its loop: parse, type-check, and write every file of
\* the directory to mutantDir, here in the order of PkgFiles; a failure makes
\* the worker return, with the files written before it left behind
Prepare(w) ==
    /\ proc = "running"
    /\ wk[w].pc = "start"
    /\ \E outcome \in {"ok", "check", "write"} :
          CASE outcome = "ok" ->
                 /\ wk' = [wk EXCEPT ![w].pc = "range", ![w].heap = Parsed.nodes]
                 /\ disk' = [disk EXCEPT ![mutantDir(w)] =
                               [name \in Range(PkgFiles) |-> Format(Parsed.nodes, FileRoot(name))]]
            [] outcome = "check" ->
                 /\ wk' = [wk EXCEPT ![w].pc = "returned"]
                 /\ UNCHANGED disk
            [] outcome = "write" ->
                 /\ wk' = [wk EXCEPT ![w].pc = "returned", ![w].heap = Parsed.nodes]
                 /\ \E k \in 0..(Len(PkgFiles) - 1) :
                       disk' = [disk EXCEPT ![mutantDir(w)] =
                                  [name \in {PkgFiles[i] : i \in 1..k} |->
                                      Format(Parsed.nodes, FileRoot(name))]]
    /\ UNCHANGED <<queue, closed, res, sigs, wg, proc, taken, sent>>
    /\ UNCHANGED <<opVars, litVars, cfgVars, covVars>>

\* for m := range c: the next mutator, or the return when c is drained
Dequeue(w) ==
    /\ proc = "running"
    /\ wk[w].pc = "range"
    /\ IF queue = <<>>
       THEN /\ wk' = [wk EXCEPT ![w].pc = "returned", ![w].m = "none"]
            /\ UNCHANGED <<queue, taken>>
       ELSE LET got == Receive(queue)
            IN /\ queue' = got.rest
               /\ taken' = Append(taken, [w |-> w, id |-> got.val.id])
               /\ wk' = [wk EXCEPT ![w].pc = "files", ![w].m = got.val.m,
                                   ![w].todo = Range(PkgFiles)]
    /\ UNCHANGED <<disk, closed, res, sigs, wg, proc, sent>>
    /\ UNCHANGED <<opVars, litVars, cfgVars, covVars>>

\* for name, file := range pkg.Files: the loop moves on, in map order and
\* past the test files, to the next file to mutate, which gets a fresh visitor
\* and tester and is walked; when no such file is left the loop ends
NextFile(w) ==
    /\ proc = "running"
    /\ wk[w].pc = "files"
    /\ LET left == {name \in wk[w].todo : ~HasTestSuffix(name)}
       IN IF left = {}
          THEN wk' = [wk EXCEPT ![w].pc = "range", ![w].todo = {}, ![w].m = "none"]
          ELSE \E name \in left :
                  wk' = [wk EXCEPT ![w] =
                            Walk([@ EXCEPT !.todo = left \ {name},
                                           !.name = name,
                                           !.result = ZeroResult,
                                           !.calls = 0,
                                           !.written = 0,
                                           !.seen = <<>>,
                                           !.walk = VisitCalls(wk[w].heap, FileRoot(name))])]
    /\ UNCHANGED <<queue, disk, closed, res, sigs, wg, proc, taken, sent>>
    /\ UNCHANGED <<opVars, litVars, cfgVars, covVars>>

\* tester.Test, first part: the file under mutation is opened with O_TRUNC
\* and the mutated tree printed into it; either may fail, and Test returns
TestWrite(w) ==
    /\ proc = "running"
    /\ wk[w].pc = "write"
    /\ \E outcome \in {"ok", "open", "print"} :
          CASE outcome = "ok" ->
                 /\ disk' = [disk EXCEPT ![mutantDir(w)][wk[w].name] =
                               Format(Head(wk[w].pending), FileRoot(wk[w].name))]
                 /\ wk' = [wk EXCEPT ![w].pc = "build", ![w].calls = @ + 1,
                                     ![w].written = @ + 1]
            [] outcome = "open" ->
                 /\ UNCHANGED disk
                 /\ wk' = [wk EXCEPT ![w] = Return([@ EXCEPT !.calls = @ + 1])]
            [] outcome = "print" ->
                 /\ disk' = [disk EXCEPT ![mutantDir(w)][wk[w].name] = <<>>]
                 /\ wk' = [wk EXCEPT ![w] = Return([@ EXCEPT !.calls = @ + 1])]
    /\ UNCHANGED <<queue, closed, res, sigs, wg, proc, taken, sent>>
    /\ UNCHANGED <<opVars, litVars, cfgVars, covVars>>

\* tester.Test, second part: go build in mutantDir
TestBuild(w) ==
    /\ proc = "running"
    /\ wk[w].pc = "build"
    /\ \E failed \in BOOLEAN :
          IF failed
          THEN wk' = [wk EXCEPT ![w] = Return([@ EXCEPT !.result = BuildFailed(@)])]
          ELSE wk' = [wk EXCEPT ![w].pc = "test"]
    /\ UNCHANGED <<queue, disk, closed, res, sigs, wg, proc, taken, sent>>
    /\ UNCHANGED <<opVars, litVars, cfgVars, covVars>>

\* what cmd.Run() of os/exec returns: nil; an *exec.ExitError when the
\* command ran and did not succeed, its ExitStatus() being the non-zero exit
\* status or -1 when a signal ended the command; or another error when the
\* command could not be started or its output not copied
NoError == [kind |-> "nil", status |-> 0]
ExitError(status) == [kind |-> "ExitError", status |-> status]
NotStarted == [kind |-> "Error", status |-> 0]
RunErrors == {NoError, NotStarted} \cup {ExitError(status) : status \in {-1, 1, 2}}

\* a getExitCode that knows exit statuses only and takes any other error for 0
getExitCodeOfExit(err) ==
    IF err.kind = "ExitError" THEN err.status ELSE 0

getExitCode(err) ==
    IF err.kind = "nil" THEN 0
    ELSE IF err.kind = "ExitError" THEN err.status
    ELSE 1

\* tester.Test, third part, go test -short in mutantDir, when cmd.Run()
\* returns err
TestRunWith(w, err) ==
    /\ proc = "running"
    /\ wk[w].pc = "test"
    /\ IF getExitCode(err) # 0
       THEN wk' = [wk EXCEPT ![w] = Return([@ EXCEPT !.result = TestStarted(@)])]
       ELSE wk' = [wk EXCEPT ![w] = Return([@ EXCEPT !.result = Survived(TestStarted(@))])]
    /\ UNCHANGED <<queue, disk, closed, res, sigs, wg, proc, taken, sent>>
    /\ UNCHANGED <<opVars, litVars, cfgVars, covVars>>

\* tester.Test, third part: go test -short in mutantDir
TestRun(w) == \E err \in RunErrors : TestRunWith(w, err)

\* w.results <- v.tester.result: main receives it and adds it to its sum, and
\* the iteration ends, its visitor and tester with it; a send on the closed
\* channel panics
Send(w) ==
    /\ proc = "running"
    /\ wk[w].pc = "send"
    /\ IF closed
       THEN /\ proc' = "panicked"
            /\ wk' = Gone
            /\ UNCHANGED <<res, sent>>
       ELSE /\ res' = Aggregate(res, wk[w].result)
            /\ sent' = sent (+) SetToBag({wk[w].result})
            /\ wk' = [wk EXCEPT ![w].pc = "files", ![w].name = NoFile,
                                ![w].result = ZeroResult, ![w].calls = 0,
                                ![w].written = 0, ![w].seen = <<>>]
            /\ UNCHANGED proc
    /\ UNCHANGED <<queue, disk, closed, sigs, wg, taken>>
    /\ UNCHANGED <<opVars, litVars, cfgVars, covVars>>

\* SIGINT or SIGTERM reaches the process and the signal goroutine receives
\* it: <-sigs; close(results)
Signal ==
    /\ proc = "running"
    /\ sigs = "none"
    /\ sigs' = "handled"
    /\ IF closed
       THEN proc' = "panicked" /\ wk' = Gone /\ UNCHANGED closed
       ELSE closed' = TRUE /\ UNCHANGED <<proc, wk>>
    /\ UNCHANGED <<queue, disk, res, wg, taken, sent>>
    /\ UNCHANGED <<opVars, litVars, cfgVars, covVars>>

\* a goroutine that waits and never closes results
WaitForever == FALSE /\ UNCHANGED vars

\* the goroutine of wg.Wait(); close(results): every worker has returned
WaitClose ==
    /\ proc = "running"
    /\ wg = "waiting"
    /\ \A w \in Workers : wk[w].pc = "returned"
    /\ wg' = "closed"
    /\ IF closed
       THEN proc' = "panicked" /\ wk' = Gone /\ UNCHANGED closed
       ELSE closed' = TRUE /\ UNCHANGED <<proc, wk>>
    /\ UNCHANGED <<queue, disk, res, sigs, taken, sent>>
    /\ UNCHANGED <<opVars, litVars, cfgVars, covVars>>

\* main leaves its loop over the closed results, prints the score and
\* returns: the deferred os.RemoveAll(tmpDir) runs and the process is gone,
\* whatever its goroutines were doing
MainExit ==
    /\ proc = "running"
    /\ closed
    /\ proc' = "exited"
    /\ disk' = [d \in Dirs |-> <<>>]
    /\ wk' = Gone
    /\ UNCHANGED <<queue, closed, res, sigs, wg, taken, sent>>
    /\ UNCHANGED <<opVars, litVars, cfgVars, covVars>>

Next ==
    \/ \E w \in Workers :
          \/ Prepare(w)
          \/ Dequeue(w)
          \/ NextFile(w)
          \/ TestWrite(w)
          \/ TestBuild(w)
          \/ TestRun(w)
          \/ Send(w)
    \/ Signal
    \/ WaitClose
    \/ MainExit

Spec == Init /\ [][Next]_vars

(***************************************************************************)
(* The earlier main (src/unnamed/part_001): the signal goroutine closes a  *)
(* quit channel that worker.Mutate selects on together with c, the scratch *)
(* directory starts empty, and a failed build is not counted.  The rest of *)
(* the worker and of main is as above.                                     *)
(***************************************************************************)
\* mtrs, in the order main sends them to c: of its six mutators, those that
\* find something to mutate in PkgTrees
mtrs == <<"mathopassign", "voidrm">>

\* the cases of the select that can proceed: c is buffered, loaded and closed,
\* so its receive always can; quit's receive can once quit is closed
ReadyCases == IF sigs = "handled" THEN {"quit", "c"} ELSE {"c"}

InitQuit ==
    /\ queue = Loaded(mtrs)
    /\ wk = [w \in Workers |-> NewWorker]
    /\ disk = [d \in Dirs |-> <<>>]
    /\ closed = FALSE
    /\ res = ZeroResult
    /\ sigs = "none"
    /\ wg = "waiting"
    /\ proc = "running"
    /\ taken = <<>>
    /\ sent = EmptyBag
    /\ OpIdle
    /\ LitIdle
    /\ CfgIdle
    /\ CovIdle

\* worker.Mutate up to its loop: parse and type-check; a failed check makes
\* the worker return
PrepareQuit(w) ==
    /\ proc = "running"
    /\ wk[w].pc = "start"
    /\ \E outcome \in {"ok", "check"} :
          IF outcome = "ok"
          THEN wk' = [wk EXCEPT ![w].pc = "range", ![w].heap = Parsed.nodes]
          ELSE wk' = [wk EXCEPT ![w].pc = "returned"]
    /\ UNCHANGED <<queue, disk, closed, res, sigs, wg, proc, taken, sent>>
    /\ UNCHANGED <<opVars, litVars, cfgVars, covVars>>

\* select { case <-quit: return; case m, ok := <-c: ... }: one of the cases
\* that can proceed, whichever the runtime picks
SelectQuit(w) ==
    /\ proc = "running"
    /\ wk[w].pc = "range"
    /\ \E chosen \in ReadyCases :
          IF chosen = "quit" \/ queue = <<>>
          THEN /\ wk' = [wk EXCEPT ![w].pc = "returned", ![w].m = "none"]
               /\ UNCHANGED <<queue, taken>>
          ELSE LET got == Receive(queue)
               IN /\ queue' = got.rest
                  /\ taken' = Append(taken, [w |-> w, id |-> got.val.id])
                  /\ wk' = [wk EXCEPT ![w].pc = "files", ![w].m = got.val.m,
                                      ![w].todo = Range(PkgFiles)]
    /\ UNCHANGED <<disk, closed, res, sigs, wg, proc, sent>>
    /\ UNCHANGED <<opVars, litVars, cfgVars, covVars>>

\* Test, first part: the file under mutation is created or truncated in the
\* scratch directory and the mutated tree printed into it
TestWriteQuit(w) ==
    /\ proc = "running"
    /\ wk[w].pc = "write"
    /\ \E outcome \in {"ok", "open", "print"} :
          CASE outcome = "ok" ->
                 /\ disk' = [disk EXCEPT ![mutantDir(w)] =
                               (wk[w].name :> Format(Head(wk[w].pending), FileRoot(wk[w].name)))
                                   @@ @]
                 /\ wk' = [wk EXCEPT ![w].pc = "build", ![w].calls = @ + 1,
                                     ![w].written = @ + 1]
            [] outcome = "open" ->
                 /\ UNCHANGED disk
                 /\ wk' = [wk EXCEPT ![w] = Return([@ EXCEPT !.calls = @ + 1])]
            [] outcome = "print" ->
                 /\ disk' = [disk EXCEPT ![mutantDir(w)] = (wk[w].name :> <<>>) @@ @]
                 /\ wk' = [wk EXCEPT ![w] = Return([@ EXCEPT !.calls = @ + 1])]
    /\ UNCHANGED <<queue, closed, res, sigs, wg, proc, taken, sent>>
    /\ UNCHANGED <<opVars, litVars, cfgVars, covVars>>

\* Test, second part: go build in the scratch directory; a failure prints
\* "invalid build" and returns
TestBuildQuit(w) ==
    /\ proc = "running"
    /\ wk[w].pc = "build"
    /\ \E failed \in BOOLEAN :
          IF failed
          THEN wk' = [wk EXCEPT ![w] = Return(@)]
          ELSE wk' = [wk EXCEPT ![w].pc = "test"]
    /\ UNCHANGED <<queue, disk, closed, res, sigs, wg, proc, taken, sent>>
    /\ UNCHANGED <<opVars, litVars, cfgVars, covVars>>

\* SIGINT or SIGTERM reaches the process and the signal goroutine receives
\* it: <-sigs; close(quit)
SignalQuit ==
    /\ proc = "running"
    /\ sigs = "none"
    /\ sigs' = "handled"
    /\ UNCHANGED <<queue, wk, disk, closed, res, wg, proc, taken, sent>>
    /\ UNCHANGED <<opVars, litVars, cfgVars, covVars>>

NextQuit ==
    \/ \E w \in Workers :
          \/ PrepareQuit(w)
          \/ SelectQuit(w)
          \/ NextFile(w)
          \/ TestWriteQuit(w)
          \/ TestBuildQuit(w)
          \/ TestRun(w)
          \/ Send(w)
    \/ SignalQuit
    \/ WaitClose
    \/ MainExit

SpecQuit == InitQuit /\ [][NextQuit]_vars

(***************************************************************************)
(* A run of main.go in which no signal arrives.  The Go scheduler runs     *)
(* every goroutine that can take a step: each worker, the goroutine that   *)
(* waits for the workers, and main.  The external commands return.         *)
(***************************************************************************)
\* a step of worker w's goroutine
WorkerStep(w) ==
    \/ Prepare(w)
    \/ Dequeue(w)
    \/ NextFile(w)
    \/ TestWrite(w)
    \/ TestBuild(w)
    \/ TestRun(w)
    \/ Send(w)

NextLive ==
    \/ \E w \in Workers : WorkerStep(w)
    \/ WaitClose
    \/ MainExit

\* the positions at which a worker goroutine has a step to take
Positions == {"start", "range", "files", "write", "build", "test", "send"}

\* worker w stands at position p of worker.Mutate, in a live process
Stands(w, p) == proc = "running" /\ wk[w].pc = p

\* A goroutine that can take a step is not left waiting forever.  At each of
\* its positions a worker has exactly one action (Prepare at "start", Dequeue
\* at "range", NextFile at "files", TestWrite, TestBuild, TestRun, Send),
\* which can be taken whenever the worker stands there and which alone moves
\* it on: weak fairness of that action is that the worker does not stand at
\* the position forever.
Scheduling ==
    /\ \A w \in Workers : \A p \in Positions : []<>~Stands(w, p)
    /\ WF_vars(WaitClose)
    /\ WF_vars(MainExit)

SpecLive == Init /\ [][NextLive]_vars /\ Scheduling

(***************************************************************************)
(* SpecCfg: the start of the program (src/cmd/godzilla/main.go): main      *)
(* calls getRunConfig, sanityCheck and generateCoverprofile, makes the     *)
(* temporary directory, loads the queue and starts the workers.  Paths are *)
(* sequences of their elements.                                            *)
(***************************************************************************)
\* the keys of the map Mutators
Mutators == MutatorNames \ {"retval"}

\* orders in which a range over the map Mutators may hand out its keys
MapOrders ==
    {<<"voidrm", "swapifelse", "swapswitch", "condbound", "mathop", "boolop",
       "mathopassign", "negcond", "floatcompinv", "inspect">>,
     <<"inspect", "floatcompinv", "negcond", "mathopassign", "boolop", "mathop",
       "condbound", "swapswitch", "swapifelse", "voidrm">>}

\* the names drawn for the -mutations list; "nosuch" is no key of Mutators
FlagNames == QueueMutators \cup {"nosuch"}

\* $GOPATH
Gopath == <<"go">>
\* the current directories drawn: a package under $GOPATH/src, a directory
\* elsewhere, and $GOPATH itself
WorkDirs == {<<"go", "src", "here">>, <<"tmp", "here">>, <<"go">>}
\* the packages drawn for the positional arguments
PkgArgs == {<<"there">>, <<"other">>}

\* the command lines and environments drawn: -help, the -mutations list
\* split at its commas (empty when the flag is the empty string), the
\* arguments left after the flags (flag.Args), whether $GOPATH is set, and
\* the current directory
CommandLines ==
    [help : BOOLEAN,
     mutations : SeqsUpTo(FlagNames, MaxOps),
     args : SeqsUpTo(PkgArgs, MaxArgs),
     gopath : BOOLEAN,
     wd : WorkDirs]

\* strings.HasPrefix
HasPrefix(s, prefix) == Len(s) >= Len(prefix) /\ SubSeq(s, 1, Len(prefix)) = prefix

NoConfig == [pkg |-> <<>>, gopath |-> <<>>, pkgFull |-> <<>>, mutations |-> <<>>]
\* os.Exit(code), and a panic, which ends the process with status 2
Exit(code) == [status |-> code, cfg |-> NoConfig]
\* a config returned to main
Configured(pkg, ms) ==
    [status |-> -1,
     cfg |-> [pkg |-> pkg, gopath |-> Gopath, pkgFull |-> Gopath \o <<"src">> \o pkg,
              mutations |-> ms]]

\* "find the package to mutest": args[1] of flag.Args() when there are two
\* arguments, else the current directory with $GOPATH/src/ cut off its
\* front; the slice panics when the directory is shorter than that
findPackage(a) ==
    IF Len(a.args) = 2 THEN [status |-> -1, pkg |-> a.args[2]]
    ELSE IF ~HasPrefix(a.wd, Gopath) THEN [status |-> 1, pkg |-> <<>>]
    ELSE IF Len(a.wd) < Len(Gopath) + 1 THEN [status |-> 2, pkg |-> <<>>]
    ELSE [status |-> -1, pkg |-> SubSeq(a.wd, Len(Gopath) + 2, Len(a.wd))]

\* the mutators of the -mutations list, names that are no key left out
findMutatorsLenient(a, order) ==
    [status |-> -1,
     mtrs |-> IF a.mutations = <<>> THEN order
              ELSE SelectSeq(a.mutations, LAMBDA name : name \in Mutators)]

\* the mutators to run: all of the map, in the order the range hands them
\* out, when the flag is empty, else those named, and exit at the first
\* name that is no key
findMutators(a, order) ==
    IF a.mutations = <<>> THEN [status |-> -1, mtrs |-> order]
    ELSE IF \E i \in DOMAIN a.mutations : a.mutations[i] \notin Mutators
    THEN [status |-> 1, mtrs |-> <<>>]
    ELSE [status |-> -1, mtrs |-> a.mutations]

getRunConfig(a, order) ==
    IF a.help THEN Exit(0)
    ELSE IF ~a.gopath THEN Exit(1)
    ELSE LET p == findPackage(a)
             m == findMutators(a, order)
         IN IF p.status >= 0 THEN Exit(p.status)
            ELSE IF m.status >= 0 THEN Exit(m.status)
            ELSE Configured(p.pkg, m.mtrs)

\* the order in which main's loop starts the workers
WorkerOrder == <<"w0", "w1">>

InitCfg ==
    /\ osargs \in CommandLines
    /\ boot = [pc |-> "getRunConfig", status |-> -1, cfg |-> NoConfig]
    /\ queue = <<>>
    /\ wk = <<>>
    /\ disk = <<>>
    /\ closed = FALSE
    /\ res = ZeroResult
    /\ sigs = "none"
    /\ wg = "waiting"
    /\ proc = "running"
    /\ taken = <<>>
    /\ sent = EmptyBag
    /\ OpIdle
    /\ LitIdle
    /\ CovIdle

\* the process ends with status code before main has started every worker
ExitsWith(code) ==
    /\ boot' = [boot EXCEPT !.pc = "exited", !.status = code]
    /\ proc' = "exited"

\* cfg := getRunConfig()
GetRunConfig ==
    /\ boot.pc = "getRunConfig"
    /\ \E order \in MapOrders :
          LET r == getRunConfig(osargs, order)
          IN IF r.status >= 0
             THEN ExitsWith(r.status)
             ELSE /\ boot' = [boot EXCEPT !.pc = "sanityCheck", !.cfg = r.cfg]
                  /\ UNCHANGED proc
    /\ UNCHANGED <<queue, wk, disk, closed, res, sigs, wg, taken, sent, osargs>>
    /\ UNCHANGED <<opVars, litVars, covVars>>

\* sanityCheck(cfg): diff is there, the package builds, its tests pass and
\* it is formatted, or the process exits with status 1
SanityCheck ==
    /\ boot.pc = "sanityCheck"
    /\ \/ boot' = [boot EXCEPT !.pc = "generateCoverprofile"] /\ UNCHANGED proc
       \/ ExitsWith(1)
    /\ UNCHANGED <<queue, wk, disk, closed, res, sigs, wg, taken, sent, osargs>>
    /\ UNCHANGED <<opVars, litVars, covVars>>

\* generateCoverprofile(cfg.pkg): the profile, or exit with status 1
GenerateCoverprofile ==
    /\ boot.pc = "generateCoverprofile"
    /\ \/ boot' = [boot EXCEPT !.pc = "launch"] /\ UNCHANGED proc
       \/ ExitsWith(1)
    /\ UNCHANGED <<queue, wk, disk, closed, res, sigs, wg, taken, sent, osargs>>
    /\ UNCHANGED <<opVars, litVars, covVars>>

\* main from ioutil.TempDir to the last go statement: the queue is loaded
\* and every worker gets its directory and is started; when TempDir or the
\* Mkdir for worker k + 1 fails the process exits with status 1, the
\* directories of the workers before it made
Launch ==
    /\ boot.pc = "launch"
    /\ \/ /\ boot' = [boot EXCEPT !.pc = "launched"]
          /\ queue' = Loaded(boot.cfg.mutations)
          /\ wk' = [w \in Workers |-> NewWorker]
          /\ disk' = [d \in Dirs |-> <<>>]
          /\ UNCHANGED proc
       \/ /\ ExitsWith(1)
          /\ \E k \in 0..(Len(WorkerOrder) - 1) :
                disk' = [d \in {mutantDir(WorkerOrder[i]) : i \in 1..k} |-> <<>>]
          /\ UNCHANGED <<queue, wk>>
    /\ UNCHANGED <<closed, res, sigs, wg, taken, sent, osargs>>
    /\ UNCHANGED <<opVars, litVars, covVars>>

NextCfg ==
    \/ GetRunConfig
    \/ SanityCheck
    \/ GenerateCoverprofile
    \/ Launch

SpecCfg == InitCfg /\ [][NextCfg]_vars

(***************************************************************************)
(* SpecCov: covered() and the filter of generateCoverprofile applied to a  *)
(* drawn block list and a drawn position.                                  *)
(***************************************************************************)
DrawnPositions == [Line : 1..MaxLine, Column : 1..MaxCol]

\* the blocks a profile may hold: the start is not after the end
DrawnBlocks ==
    {block \in [StartLine : 1..MaxLine, StartCol : 1..MaxCol,
                EndLine : 1..MaxLine, EndCol : 1..MaxCol, Count : 0..MaxCount] :
        \/ block.StartLine < block.EndLine
        \/ block.StartLine = block.EndLine /\ block.StartCol <= block.EndCol}

RECURSIVE RemoveUncoveredSkipping(_, _)
\* the loop without its i--: the block that moves into place i is not looked at
RemoveUncoveredSkipping(blocks, i) ==
    IF i > Len(blocks) THEN blocks
    ELSE IF blocks[i].Count = 0
    THEN RemoveUncoveredSkipping(SubSeq(ShiftedDown(blocks, i), 1, Len(blocks) - 1), i + 1)
    ELSE RemoveUncoveredSkipping(blocks, i + 1)

RECURSIVE RemoveUncovered(_, _)
\* "remove all the Blocks that aren't covered": the loop from index i on; a
\* block of count 0 is cut out by shifting the rest down inside the slice's
\* array and reslicing, and the same index is looked at again
RemoveUncovered(blocks, i) ==
    IF i > Len(blocks) THEN blocks
    ELSE IF blocks[i].Count = 0
    THEN RemoveUncovered(SubSeq(ShiftedDown(blocks, i), 1, Len(blocks) - 1), i)
    ELSE RemoveUncovered(blocks, i + 1)

InitCov ==
    /\ cover \in [Blocks : SeqsUpTo(DrawnBlocks, MaxBlocks), pos : DrawnPositions]
    /\ covres = [asked |-> FALSE, covered |-> FALSE, filtered |-> FALSE, Blocks |-> <<>>]
    /\ OpIdle
    /\ LitIdle
    /\ RunIdle
    /\ CfgIdle

\* covered(parseInfo, node) for a node at the drawn position
Covered ==
    /\ ~covres.asked
    /\ covres' = [covres EXCEPT !.asked = TRUE,
                                !.covered = coveredPos(cover.Blocks, cover.pos)]
    /\ UNCHANGED <<cover, opVars, litVars, runVars, cfgVars>>

\* the filter loop of generateCoverprofile on one profile
Filter ==
    /\ ~covres.filtered
    /\ covres' = [covres EXCEPT !.filtered = TRUE,
                                !.Blocks = RemoveUncovered(cover.Blocks, 1)]
    /\ UNCHANGED <<cover, opVars, litVars, runVars, cfgVars>>

NextCov == Covered \/ Filter

SpecCov == InitCov /\ [][NextCov]_vars

(***************************************************************************)
(* What the specification says of literals, for the claims to refer to.    *)
(***************************************************************************)
\* the zero forms: 0, 00..., 0., 0.0..., .0...
ZeroForm(t) ==
    \/ Len(t) >= 1 /\ AllZeros(t)
    \/ \E k \in DOMAIN t :
          /\ t[k] = "."
          /\ Len(t) >= 2
          /\ AllZeros(SubSeq(t, 1, k - 1))
          /\ AllZeros(SubSeq(t, k + 1, Len(t)))

\* the one forms: 1, 1.0...
OneForm(t) ==
    \/ t = <<"1">>
    \/ Len(t) >= 3 /\ t[1] = "1" /\ t[2] = "." /\ AllZeros(SubSeq(t, 3, Len(t)))

\* e is an INT or FLOAT literal whose whole text is a zero form / a one form
DenotesZero(h, e) ==
    e # 0 /\ h[e].tag = "BasicLit" /\ h[e].Kind \in {"INT", "FLOAT"} /\ ZeroForm(h[e].Value)
DenotesOne(h, e) ==
    e # 0 /\ h[e].tag = "BasicLit" /\ h[e].Kind \in {"INT", "FLOAT"} /\ OneForm(h[e].Value)

(***************************************************************************)
(* Properties of one mutator call (SpecOp).                                *)
(***************************************************************************)
\* a mutator has been called on a node and has returned
Returned == ran # "none" /\ node # 0

\* the position of the node handed to the mutator lies in a covered block
NodeCovered == coveredPos(parseInfo.CoveredBlocks, orig[node].pos)

\* C1: after any mutator returns, the tree reachable from the node it was
\* given equals, field by field, the tree before the call.
C1_TreeRestored == Returned => Tree(heap, node) = Tree(orig, node)

\* a call that showed the Tester a changed tree and has returned
C1_Witness ==
    /\ Returned
    /\ tests # <<>>
    /\ Tree(tests[1], node) # Tree(orig, node)
    /\ Tree(heap, node) = Tree(orig, node)

\* C5: a mutator handed a node whose position lies outside every covered
\* block never calls Test().
C5_UncoveredNodeNoTest == Returned /\ ~NodeCovered => tests = <<>>

\* an uncovered float comparison in an if statement handed to
\* FloatComparisonInverter, no block being covered at all
C5_Witness ==
    /\ Returned
    /\ ran = "floatcompinv"
    /\ parseInfo.CoveredBlocks = <<>>
    /\ orig[node].tag = "IfStmt"
    /\ orig[orig[node].Cond].tag = "BinaryExpr"
    /\ orig[orig[node].Cond].Op \in DOMAIN floatComparisonInverterMap
    /\ tests = <<>>

\* the nodes of the original tree under root that the tree m lacks or holds
\* with another content
DiffersAt(o, m, root) ==
    {id \in Reach(o, root) : id \notin Reach(m, root) \/ m[id] # o[id]}

\* C6: Test() is never called while the tree differs from the original at a
\* node whose own position lies outside every covered block.
C6_UncoveredNotMutated ==
    Returned =>
        \A k \in DOMAIN tests :
            \A id \in DiffersAt(orig, tests[k], node) :
                coveredPos(parseInfo.CoveredBlocks, orig[id].pos)

\* the BinaryExpr forms for which the specification has MathMutator stay silent
Suppressed(info, h, n) ==
    LET e == h[n]
    IN \/ e.Op = "+" /\ (DenotesZero(h, e.X) \/ DenotesZero(h, e.Y) \/ isString(info, e.X))
       \/ e.Op = "-" /\ (DenotesZero(h, e.X) \/ DenotesZero(h, e.Y))
       \/ e.Op = "*" /\ (DenotesOne(h, e.X) \/ DenotesOne(h, e.Y))
       \/ e.Op = "/" /\ DenotesOne(h, e.Y)

\* C7: on a covered BinaryExpr with an operator of the math table, MathMutator
\* calls Test() zero times for x + 0, 0 + x, x - 0, 0 - x, x * 1, 1 * x, x / 1
\* and s + t with s a string, and exactly once for every other operand pair.
C7_MathLiteralGating ==
    /\ Returned
    /\ ran = "mathop"
    /\ orig[node].tag = "BinaryExpr"
    /\ orig[node].Op \in DOMAIN mathMutatorTable
    /\ NodeCovered
    => Len(tests) = IF Suppressed(parseInfo, orig, node) THEN 0 ELSE 1

(***************************************************************************)
(* Properties of the literal predicates (SpecLit).                         *)
(***************************************************************************)
\* C8: isZero(e) is true exactly when e is an INT or FLOAT literal whose
\* whole text is a zero form; it is false for 0.5, 1.0, 10.0, 07, 0x10.
C8_IsZeroExact == litres.done => (litres.zero <=> DenotesZero(<<lit>>, 1))

(***************************************************************************)
(* Properties of a run (Spec).                                             *)
(***************************************************************************)
\* what worker w's mutantDir held for each file after the snapshot
Snapshot(name) == Format(Parsed.nodes, FileRoot(name))

\* C2: whenever Test() builds or runs the tests in a worker's mutantDir, every
\* file there but the one under mutation is as the snapshot left it.
C2_OneMutationOnDisk ==
    \A w \in Workers :
        wk[w].pc \in {"build", "test"} =>
            \A name \in DOMAIN disk[mutantDir(w)] \ {wk[w].name} : disk[mutantDir(w)][name] = Snapshot(name)

\* worker w is not inside a Test() call
OutsideTest(w) == wk[w].pc \notin {"build", "test"}

C4Step(w) ==
    /\ wk[w].pc = "build" /\ wk'[w].pc \notin {"build", "test", "gone"}
          => wk'[w].result = [wk[w].result EXCEPT !.skipped = @ + 1]
    /\ wk'[w].pc = "build" /\ wk[w].pc # "build"
          => /\ wk[w].pc = "write"
             /\ disk'[mutantDir(w)][wk[w].name] = Format(Head(wk[w].pending), FileRoot(wk[w].name))
    /\ wk'[w].pc = "test" /\ wk[w].pc # "test"
          => wk[w].pc = "build" /\ wk'[w].result = wk[w].result
    /\ wk'[w].result.total > wk[w].result.total => wk[w].pc = "test"
C4_BuildFailure == [][\A w \in Workers : C4Step(w)]_vars

\* a tester whose one Test() call ended in a failed build
C4_Witness ==
    \E w \in Workers :
        /\ wk[w].pc = "send"
        /\ wk[w].written = 1
        /\ wk[w].result = [alive |-> 0, total |-> 0, skipped |-> 1]

\* the entries received so far, then the entries still in the queue
Entries == [i \in DOMAIN taken |-> taken[i].id] \o [i \in DOMAIN queue |-> queue[i].id]

\* C9: every mutator loaded into the queue is received exactly once over all
\* workers: each entry is either still queued or was received by one worker,
\* once.
C9_DequeuedOnce == \A i \in DOMAIN Entries : Entries[i] = i

\* the queue drained by two workers, each having received one mutator
C9_Witness ==
    /\ queue = <<>>
    /\ Len(taken) = 2
    /\ taken[1].w # taken[2].w

\* C10: once the interrupt has been handled no worker receives another
\* mutator and no worker starts to walk another file.
C10_StopsAfterCancel ==
    [][sigs = "handled" =>
          \A w \in Workers :
              /\ ~(wk[w].pc = "range" /\ wk'[w].pc = "files")
              /\ ~(wk[w].pc = "files" /\ wk'[w].pc \in {"write", "send"})]_vars

(***************************************************************************)
(* Properties of a run without a signal (SpecLive).                        *)
(***************************************************************************)
\* main has left its loop over the closed results channel and has reported
Reported == proc = "exited" /\ closed /\ wg = "closed"

RECURSIVE SumField(_, _, _)
\* the sum of field f over the records of S, each counted as often as the
\* bag b holds it
SumField(b, S, f) ==
    IF S = {} THEN 0
    ELSE LET r == CHOOSE x \in S : TRUE
         IN r[f] * CopiesIn(r, b) + SumField(b, S \ {r}, f)

\* C12: alive, total and skipped of main's sum are the sums of the fields of
\* the records the workers have sent, each record counted once, in whatever
\* order they arrived.
C12_ReportIsSum ==
    \A f \in {"alive", "total", "skipped"} : res[f] = SumField(sent, BagToSet(sent), f)

\* main has reported after records of a killed mutant and of a skipped one,
\* and others, have arrived
C12_Witness ==
    /\ proc = "exited"
    /\ BagCardinality(sent) >= 3
    /\ BagIn([alive |-> 0, total |-> 1, skipped |-> 0], sent)
    /\ BagIn([alive |-> 0, total |-> 0, skipped |-> 1], sent)
    /\ res = [alive |-> 0, total |-> 1, skipped |-> 1]

(***************************************************************************)
(* Properties of the workers' isolation (Spec).                            *)
(***************************************************************************)
\* C13: workers share no mutable state: their scratch directories are
\* distinct, a step changes the tree of at most one worker, the one taking
\* the step, and a worker that takes no step finds its tree and the files of
\* its scratch directory as it left them, while the process runs.
C13Step(w) ==
    /\ \A v \in Workers \ {w} : mutantDir(v) # mutantDir(w)
    /\ wk'[w].heap # wk[w].heap /\ proc' = "running"
          => \A v \in Workers \ {w} : wk'[v] = wk[v]
    /\ wk'[w] = wk[w] /\ proc' = "running"
          => disk'[mutantDir(w)] = disk[mutantDir(w)]
C13_WorkersIsolated == [][\A w \in Workers : C13Step(w)]_vars

\* both workers inside Test(), each with a mutant of another file written to
\* its own directory and in its own tree
C13_Witness ==
    \E w \in Workers, v \in Workers :
        /\ wk[w].pc = "build" /\ wk[v].pc = "build"
        /\ wk[w].name # wk[v].name
        /\ disk[mutantDir(w)][wk[w].name] # Snapshot(wk[w].name)
        /\ disk[mutantDir(v)][wk[v].name] # Snapshot(wk[v].name)
        /\ disk[mutantDir(w)][wk[v].name] = Snapshot(wk[v].name)

(***************************************************************************)
(* Properties of a walk with one mutator (SpecOp).                         *)
(***************************************************************************)
RECURSIVE WalkTests(_, _, _, _)
\* the trees shown to Test() when ast.Walk hands the nodes ids of arena h,
\* one after the other, to mutator m
WalkTests(m, info, h, ids) ==
    IF ids = <<>> THEN <<>>
    ELSE Mutate(m, info, Head(ids), [heap |-> h, tests |-> <<>>]).tests
             \o WalkTests(m, info, h, Tail(ids))

\* every node under node id lies in a covered block
AllCovered(info, h, id) == \A k \in Reach(h, id) : coveredPos(info.CoveredBlocks, h[k].pos)

\* arena h holds !(x op y) at node e, x and y being the nodes cmp compared
IsInverted(h, e, cmp, op) ==
    /\ h[e].tag = "UnaryExpr" /\ h[e].Op = "!"
    /\ h[h[e].X].tag = "BinaryExpr" /\ h[h[e].X].Op = op
    /\ h[h[e].X].X = cmp.X /\ h[h[e].X].Y = cmp.Y

\* C14: a walk of floatcompinv over the covered body { return f < g }, f and
\* g float64, calls Test() exactly once, on the tree that returns !(f >= g).
C14_ReturnedComparisonInverted ==
    /\ ran = "floatcompinv"
    /\ node = 1
    /\ orig = Load(CmpBody).nodes
    /\ AllCovered(parseInfo, orig, 1)
    => LET ts == WalkTests("floatcompinv", parseInfo, orig, PreOrder(orig, 1))
           ret == orig[1].List[1]
       IN /\ Len(ts) = 1
          /\ IsInverted(ts[1], ts[1][ret].Results[1], orig[orig[ret].Results[1]], ">=")

(***************************************************************************)
(* Properties of the two swapping operators (SpecOp).                      *)
(***************************************************************************)
\* the case clauses of the switch statement at node n of arena h
ClausesOf(h, n) == h[h[n].Body].List

\* C15: within one SwapSwitchCase call on a switch of two or more clauses,
\* the trees shown to Test() are pairwise distinct, two clauses included.
C15_DistinctSwapMutants ==
    /\ Returned
    /\ ran = "swapswitch"
    /\ orig[node].tag = "SwitchStmt"
    /\ Len(ClausesOf(orig, node)) >= 2
    => \A i \in DOMAIN tests : \A j \in DOMAIN tests :
          i # j => Tree(tests[i], node) # Tree(tests[j], node)

\* the then block of the if statement at the node handed over is covered
ThenCovered == coveredPos(parseInfo.CoveredBlocks, orig[orig[node].Body].pos)
\* its else branch, which it has, is covered
ElseCovered == coveredPos(parseInfo.CoveredBlocks, orig[orig[node].Else].pos)
\* its else branch is a plain block
PlainElse == orig[node].Else # 0 /\ orig[orig[node].Else].tag = "BlockStmt"

\* C16: SwapIfElse on a covered if statement calls Test() zero times when
\* there is no else branch, when the else branch is an if statement, and when
\* neither the then block nor the else block is covered; otherwise it calls
\* Test() exactly once, on the tree with then and else exchanged.
C16_SwapIfElseGating ==
    /\ Returned
    /\ ran = "swapifelse"
    /\ orig[node].tag = "IfStmt"
    /\ NodeCovered
    => IF ~PlainElse \/ (~ThenCovered /\ ~ElseCovered)
       THEN tests = <<>>
       ELSE /\ Len(tests) = 1
            /\ Tree(tests[1], tests[1][node].Body) = Tree(orig, orig[node].Else)
            /\ Tree(tests[1], tests[1][node].Else) = Tree(orig, orig[node].Body)

(***************************************************************************)
(* Properties of FloatComparisonInverter on a block (SpecOp).              *)
(***************************************************************************)
\* node e of arena h compares two operands of one floating point type
IsFloatCmp(info, h, e) ==
    /\ h[e].tag = "BinaryExpr"
    /\ h[e].Op \in {"==", "<", ">", "!=", "<=", ">="}
    /\ h[e].X \in DOMAIN info.TypesInfo
    /\ h[e].Y \in DOMAIN info.TypesInfo
    /\ TypeOf(info, h[e].X).class = "Basic"
    /\ TypeOf(info, h[e].X).Kind \in {"Float32", "Float64"}
    /\ TypeOf(info, h[e].Y) = TypeOf(info, h[e].X)

RECURSIVE FloatCmps(_, _, _)
\* how many such comparisons the boolean expression e is built from with
\* &&, ||, ! and parentheses
FloatCmps(info, h, e) ==
    IF h[e].tag = "BinaryExpr" /\ h[e].Op \in {"&&", "||"}
    THEN FloatCmps(info, h, h[e].X) + FloatCmps(info, h, h[e].Y)
    ELSE IF h[e].tag = "ParenExpr" \/ (h[e].tag = "UnaryExpr" /\ h[e].Op = "!")
    THEN FloatCmps(info, h, h[e].X)
    ELSE IF IsFloatCmp(info, h, e) THEN 1 ELSE 0

RECURSIVE BoolFloatCmps(_, _, _)
\* the same, summed over the boolean-typed expressions of the list es
BoolFloatCmps(info, h, es) ==
    IF es = <<>> THEN 0
    ELSE (IF isBool(info, Head(es)) THEN FloatCmps(info, h, Head(es)) ELSE 0)
             + BoolFloatCmps(info, h, Tail(es))

RECURSIVE CarriedFloatCmps(_, _, _)
\* the same, summed over the right-hand sides of the assignments and the
\* guards of the case clauses in the statement list ss
CarriedFloatCmps(info, h, ss) ==
    IF ss = <<>> THEN 0
    ELSE (IF h[Head(ss)].tag = "AssignStmt" THEN BoolFloatCmps(info, h, h[Head(ss)].Rhs)
          ELSE IF h[Head(ss)].tag = "CaseClause" THEN BoolFloatCmps(info, h, h[Head(ss)].List)
          ELSE 0)
             + CarriedFloatCmps(info, h, Tail(ss))

\* C17: FloatComparisonInverter on a covered block calls Test() once for
\* every same-float-typed comparison in every boolean right-hand side of
\* every assignment and in every boolean guard of every case clause of the
\* block's list, whatever statements come before it in the list.
C17_EveryBooleanCarrierProcessed ==
    /\ Returned
    /\ ran = "floatcompinv"
    /\ orig[node].tag = "BlockStmt"
    /\ NodeCovered
    => Len(tests) = CarriedFloatCmps(parseInfo, orig, orig[node].List)

(***************************************************************************)
(* Properties of ReturnValueMutator (SpecOp).                              *)
(***************************************************************************)
\* the statements ReturnValueMutator looks through at the node handed over:
\* the list of a block, the body of a case clause
ReturnCarrier ==
    IF orig[node].tag = "BlockStmt" THEN orig[node].List
    ELSE IF orig[node].tag = "CaseClause" THEN orig[node].Body
    ELSE <<>>

\* the INT and FLOAT literals returned by the return statements among them
ReturnedLiterals ==
    {e \in DOMAIN orig :
        /\ orig[e].tag = "BasicLit"
        /\ orig[e].Kind \in {"INT", "FLOAT"}
        /\ \E i \in DOMAIN ReturnCarrier :
              /\ orig[ReturnCarrier[i]].tag = "ReturnStmt"
              /\ e \in Range(orig[ReturnCarrier[i]].Results)}

\* C18: for every INT or FLOAT literal returned in a covered block or case
\* clause, ReturnValueMutator calls Test() exactly once with the literal
\* changed, its text then being "1" if the literal denotes zero and "0" if
\* it denotes another value, and the text is restored afterwards.
C18_ReturnedLiteralFlipped ==
    /\ Returned
    /\ ran = "retval"
    /\ NodeCovered
    => \A e \in ReturnedLiterals :
          /\ Cardinality({i \in DOMAIN tests : tests[i][e].Value # orig[e].Value}) = 1
          /\ \A i \in DOMAIN tests :
                tests[i][e].Value # orig[e].Value
                    => tests[i][e].Value = IF DenotesZero(orig, e) THEN <<"1">> ELSE <<"0">>
          /\ heap[e].Value = orig[e].Value

(***************************************************************************)
(* Properties of the program's start (SpecCfg).                            *)
(***************************************************************************)
\* the -mutations list holds a name that is no key of the catalogue
UnknownNamed == \E i \in DOMAIN osargs.mutations : osargs.mutations[i] \notin Mutators

\* getRunConfig has been called and has returned or ended the process
GotRunConfig == boot.pc # "getRunConfig"

\* no worker was started and no directory made for one (and so no Test()
\* was called)
NothingStarted == wk = <<>> /\ disk = <<>> /\ queue = <<>>

\* C19: if a name of the -mutations list is no key of the catalogue, the
\* program exits with a non-zero status before any worker is started, any
\* scratch directory is made or any Test() is called.
C19_UnknownNameExitsNonZero ==
    UnknownNamed /\ GotRunConfig
        => boot.pc = "exited" /\ boot.status > 0 /\ NothingStarted

\* C19, amended: if a name of the -mutations list is no key of the
\* catalogue, the program exits before any worker is started, any scratch
\* directory is made or any Test() is called; its status is non-zero unless
\* -help is given too, and then it is 0.
C19_UnknownNameExits ==
    UnknownNamed /\ GotRunConfig
        => /\ boot.pc = "exited"
           /\ NothingStarted
           /\ IF osargs.help THEN boot.status = 0 ELSE boot.status > 0

\* a command line that is in order but for the second name of its
\* -mutations list has ended the process with status 1
C19_Witness ==
    /\ boot.pc = "exited"
    /\ boot.status = 1
    /\ ~osargs.help
    /\ osargs.gopath
    /\ Len(osargs.args) = 2
    /\ Len(osargs.mutations) = 2
    /\ osargs.mutations[1] \in Mutators
    /\ osargs.mutations[2] \notin Mutators

\* C20: when exactly one positional argument is given, it is the package
\* that is mutated; the package of the current directory is mutated only
\* when no argument is given.
C20_OnlyArgumentIsPackage ==
    boot.pc \notin {"getRunConfig", "exited"}
        => /\ Len(osargs.args) = 1 => boot.cfg.pkg = osargs.args[1]
           /\ boot.cfg.pkg \notin PkgArgs => osargs.args = <<>>

(***************************************************************************)
(* Properties of Test() inside a run (Spec).                               *)
(***************************************************************************)
\* worker w takes a step of Test(): the write, the build or the test run
TestStep(w) == TestWrite(w) \/ TestBuild(w) \/ TestRun(w)

\* after the step worker w is still in Test(), or at the next Test() call of
\* its walk, or at the end of the file with nothing left to visit; it has the
\* same mutator and file, and outside a mutator call its tree is the parsed one
StillWalking(w) ==
    /\ proc' = "running"
    /\ wk'[w].pc \in {"build", "test", "write", "send"}
    /\ wk'[w].m = wk[w].m
    /\ wk'[w].name = wk[w].name
    /\ Tree(wk'[w].heap, FileRoot(wk[w].name)) = Tree(Parsed.nodes, FileRoot(wk[w].name))
    /\ \E k \in 0..Len(wk[w].walk) :
          wk'[w].walk = SubSeq(wk[w].walk, k + 1, Len(wk[w].walk))
    /\ wk'[w].pc = "write" => wk'[w].pending # <<>>
    /\ wk'[w].pc = "send" => wk'[w].pending = <<>> /\ wk'[w].walk = <<>>

\* C21: no outcome of a Test() call ends the process or the worker: after a
\* failed open or print, a failed build, a failed test run or a surviving
\* mutant, Test() returns, the tree is the restored one and the walk goes on
\* with the next node.
C21_OutcomeNeverTerminates == [][\A w \in Workers : TestStep(w) => StillWalking(w)]_vars

\* a worker is at the end of a file whose block was shown to Test() with its
\* void call removed, the build failed, and the statement and the call after
\* the block in pre-order were visited since
C21_Witness ==
    \E w \in Workers :
        /\ wk[w].pc = "send"
        /\ wk[w].m = "voidrm"
        /\ wk[w].calls = 1
        /\ wk[w].result = [alive |-> 0, total |-> 0, skipped |-> 1]
        /\ wk[w].walk = <<>>

(***************************************************************************)
(* Properties of the snapshot in mutantDir (Spec).                         *)
(***************************************************************************)
\* how many mutators worker w has received from c
TakenBy(w) == Cardinality({i \in DOMAIN taken : taken[i].w = w})

\* worker w stands at the first Test() call it ever makes (in the package
\* drawn a mutator finds at most one place to mutate)
AtFirstTest(w) == wk[w].pc = "write" /\ wk[w].calls = 0 /\ TakenBy(w) = 1

\* C22: in every worker mutantDir holds a copy of every parsed file of the
\* directory before the worker's first Test() call, and a worker whose
\* snapshot is incomplete has returned, or not begun, without receiving a
\* mutator and without calling Test().
C22_SnapshotBeforeFirstTest ==
    proc = "running" =>
        \A w \in Workers :
            /\ AtFirstTest(w) =>
                  /\ DOMAIN disk[mutantDir(w)] = Range(PkgFiles)
                  /\ \A name \in Range(PkgFiles) : disk[mutantDir(w)][name] = Snapshot(name)
            /\ DOMAIN disk[mutantDir(w)] # Range(PkgFiles) =>
                  /\ wk[w].pc \in {"start", "returned"}
                  /\ TakenBy(w) = 0
                  /\ wk[w].calls = 0

\* one worker stands at its first Test() call with the whole snapshot in its
\* directory while another, whose snapshot write failed after the first file,
\* has returned
C22_Witness ==
    \E w \in Workers, v \in Workers :
        /\ AtFirstTest(w)
        /\ DOMAIN disk[mutantDir(w)] = Range(PkgFiles)
        /\ wk[v].pc = "returned"
        /\ Cardinality(DOMAIN disk[mutantDir(v)]) = 1
        /\ proc = "running"

(***************************************************************************)
(* Properties of the records sent (Spec).                                  *)
(***************************************************************************)
\* what a step of worker w does to the records: leaving the end of a walk it
\* hands main one record, the counters of that walk, and the file is done;
\* entering a walk it starts from a tester whose counters are all zero, on a
\* file that is no test file
C23Step(w) ==
    /\ wk[w].pc = "send" /\ wk'[w] # wk[w] =>
          /\ sent' = sent (+) SetToBag({wk[w].result})
          /\ wk'[w].pc = "files"
          /\ wk[w].name \notin wk'[w].todo
    /\ wk[w].pc = "files" /\ wk'[w].pc \in {"write", "send"} =>
          /\ wk'[w].result = ZeroResult
          /\ wk'[w].calls = 0
          /\ ~HasTestSuffix(wk'[w].name)

\* C23: for each pair of a mutator and a file that is no test file, the
\* worker sends exactly one record, after the walk of the file, holding the
\* counters of that walk only; no record arrives otherwise, so no Test()
\* outcome is reported twice or not at all.
C23_OneRecordPerWalk ==
    [][/\ \A w \in Workers : C23Step(w)
       /\ sent' # sent => \E w \in Workers : wk[w].pc = "send" /\ wk'[w] # wk[w]]_vars

(***************************************************************************)
(* Properties of the walk of a file (Spec).                                *)
(***************************************************************************)
\* the nodes of the file worker w walks, in pre-order
FileNodes(w) == PreOrder(Parsed.nodes, FileRoot(wk[w].name))

\* C24: during a walk the mutator is called once for every node of the file,
\* in pre-order, and never for nil: what it has been handed so far is the
\* beginning of the file's pre-order, and at the end of the walk all of it,
\* with no node twice; the file is never one whose name ends in _test.go.
C24_EveryNodeVisitedOnce ==
    proc = "running" =>
        \A w \in Workers :
            wk[w].pc \in {"write", "build", "test", "send"} =>
                /\ ~HasTestSuffix(wk[w].name)
                /\ Len(wk[w].seen) <= Len(FileNodes(w))
                /\ wk[w].seen = SubSeq(FileNodes(w), 1, Len(wk[w].seen))
                /\ 0 \notin Range(wk[w].seen)
                /\ Cardinality(Range(wk[w].seen)) = Len(wk[w].seen)
                /\ wk[w].pc = "send" => wk[w].seen = FileNodes(w)

\* a worker at the end of a walk in which Test() was called at a node in the
\* middle of the file, every node of the file handed to the mutator, while
\* another is inside Test() with nodes still to visit
C24_Witness ==
    \E w \in Workers, v \in Workers :
        /\ wk[w].pc = "send"
        /\ wk[w].calls = 1
        /\ wk[w].seen = FileNodes(w)
        /\ Len(wk[w].seen) > 3
        /\ wk[v].pc = "build"
        /\ Len(wk[v].seen) < Len(FileNodes(v))
        /\ wk[v].seen # <<>>

(***************************************************************************)
(* Properties of SwapSwitchCase (SpecOp).                                  *)
(***************************************************************************)
\* clause i of the switch handed over, and the clause it is swapped with
ClauseAt(i) == ClausesOf(orig, node)[i]
NextClause(i) == ClausesOf(orig, node)[(i % Len(ClausesOf(orig, node))) + 1]

\* the position of clause c lies in a covered block
ClauseCovered(c) == coveredPos(parseInfo.CoveredBlocks, orig[c].pos)

\* the indices i, in order, for which clause i or the one after it is covered
SwappedPairs ==
    SelectSeq([i \in 1..Len(ClausesOf(orig, node)) |-> i],
              LAMBDA i : ClauseCovered(ClauseAt(i)) \/ ClauseCovered(NextClause(i)))

\* arena h is the original with the bodies of clauses a and b exchanged and
\* nothing else changed
BodiesExchanged(h, a, b) ==
    /\ h[a].Body = orig[b].Body
    /\ h[b].Body = orig[a].Body
    /\ \A c \in DOMAIN orig : c \notin {a, b} => h[c] = orig[c]
    /\ h[a].List = orig[a].List
    /\ h[b].List = orig[b].List

\* C25: SwapSwitchCase on a covered switch of n clauses calls Test() zero
\* times if n < 2; otherwise once for each i in 0..n-1 such that clause i or
\* clause (i+1) mod n is covered, in that order, each time with the bodies of
\* the two clauses exchanged and the guards unchanged: n calls when every
\* clause is covered.
C25_SwapPerCoveredPair ==
    /\ Returned
    /\ ran = "swapswitch"
    /\ orig[node].tag = "SwitchStmt"
    /\ NodeCovered
    => IF Len(ClausesOf(orig, node)) < 2 THEN tests = <<>>
       ELSE /\ Len(tests) = Len(SwappedPairs)
            /\ \A k \in DOMAIN tests :
                  BodiesExchanged(tests[k], ClauseAt(SwappedPairs[k]),
                                  NextClause(SwappedPairs[k]))
            /\ (\A i \in DOMAIN ClausesOf(orig, node) : ClauseCovered(ClauseAt(i)))
                   => Len(tests) = Len(ClausesOf(orig, node))

\* a switch of three clauses, all covered, has been shown to Test() three
\* times
C25_Witness ==
    /\ Returned
    /\ ran = "swapswitch"
    /\ orig[node].tag = "SwitchStmt"
    /\ Len(ClausesOf(orig, node)) = 3
    /\ \A i \in 1..3 : ClauseCovered(ClauseAt(i))
    /\ Len(tests) = 3

(***************************************************************************)
(* Properties of VoidCallRemoverMutator (SpecOp).                          *)
(***************************************************************************)
\* the indices, in order, of the statements of the block handed over that
\* are expression statements whose expression has the type fact IsVoid
VoidCalls ==
    SelectSeq([i \in 1..Len(orig[node].List) |-> i],
              LAMBDA i : /\ orig[orig[node].List[i]].tag = "ExprStmt"
                         /\ orig[orig[node].List[i]].X \in DOMAIN parseInfo.TypesInfo
                         /\ IsVoid(parseInfo.TypesInfo[orig[orig[node].List[i]].X]))

MathPairs ==
    {<<"+", "-">>, <<"-", "+">>, <<"*", "/">>, <<"/", "*">>, <<"%", "*">>,
     <<"&", "|">>, <<"|", "&">>, <<"^", "&">>, <<"<<", ">>">>, <<">>", "<<">>}

\* arena h is the original but for the operator of the node handed over
OnlyOpChanged(h) ==
    /\ DOMAIN h = DOMAIN orig
    /\ \A c \in DOMAIN orig : c # node => h[c] = orig[c]
    /\ h[node] = [orig[node] EXCEPT !.Op = h[node].Op]

\* C27: MathMutator shows the tester the operator the table gives for the
\* original one and nothing else changed, at most once, and afterwards the
\* node has its original operator again, for % and ^ too; a BinaryExpr whose
\* operator is not in the table gets no Test() call and no write.
C27_MathTableAndRestore ==
    /\ Returned
    /\ ran = "mathop"
    /\ orig[node].tag = "BinaryExpr"
    => /\ Len(tests) <= 1
       /\ \A k \in DOMAIN tests :
             /\ <<orig[node].Op, tests[k][node].Op>> \in MathPairs
             /\ OnlyOpChanged(tests[k])
       /\ heap = orig
       /\ (\A pair \in MathPairs : pair[1] # orig[node].Op) => tests = <<>>

\* x % y was shown to the tester as x * y and is x % y again
C27_Witness ==
    /\ Returned
    /\ ran = "mathop"
    /\ orig[node].tag = "BinaryExpr"
    /\ orig[node].Op = "%"
    /\ Len(tests) = 1
    /\ tests[1][node].Op = "*"
    /\ heap[node].Op = "%"

\* table T sends every key to a key, and that key back
IsInvolution(T) == \A t \in DOMAIN T : T[t] \in DOMAIN T /\ T[T[t]] = t

\* table T exchanges the two operators of every pair of P and has no other key
Exchanges(T, P) ==
    /\ DOMAIN T = UNION {{pair[1], pair[2]} : pair \in P}
    /\ \A pair \in P : T[pair[1]] = pair[2] /\ T[pair[2]] = pair[1]

\* the table of the mutator that has run, of the three that exchange operators
TableOf(m) ==
    CASE m = "condbound" -> conditionalsBoundaryMutatorTable
      [] m = "negcond" -> negateConditionalsMutatorTable
      [] m = "boolop" -> booleanMutatorTable

\* C28: the tables of ConditionalsBoundaryMutator (< with <=, > with >=),
\* NegateConditionalsMutator (== with !=, < with >=, > with <=) and
\* BooleanOperatorsMutator (&& with ||) are involutions whose values are
\* keys, and each of the three calls Test() exactly once, with the operator
\* the table gives, on a covered BinaryExpr whose operator is a key of its
\* table, and not at all on any other node.
C28_InvolutionTables ==
    /\ Exchanges(conditionalsBoundaryMutatorTable, {<<"<", "<=">>, <<">", ">=">>})
    /\ Exchanges(negateConditionalsMutatorTable,
                 {<<"==", "!=">>, <<"<", ">=">>, <<">", "<=">>})
    /\ Exchanges(booleanMutatorTable, {<<"&&", "||">>})
    /\ \A m \in {"condbound", "negcond", "boolop"} : IsInvolution(TableOf(m))
    /\ Returned /\ ran \in {"condbound", "negcond", "boolop"} =>
          IF /\ NodeCovered
             /\ orig[node].tag = "BinaryExpr"
             /\ orig[node].Op \in DOMAIN TableOf(ran)
          THEN /\ Len(tests) = 1
               /\ tests[1][node].Op = TableOf(ran)[orig[node].Op]
               /\ OnlyOpChanged(tests[1])
               /\ heap = orig
          ELSE tests = <<>> /\ heap = orig

\* x >= 5 was shown to the tester as x < 5 by NegateConditionalsMutator
C28_Witness ==
    /\ Returned
    /\ ran = "negcond"
    /\ orig[node].tag = "BinaryExpr"
    /\ orig[node].Op = ">="
    /\ Len(tests) = 1
    /\ tests[1][node].Op = "<"


(***************************************************************************)
(* MathAssignMutator (SpecOp).                                             *)
(***************************************************************************)
AssignPairs ==
    {<<"+=", "-=">>, <<"-=", "+=">>, <<"*=", "/=">>, <<"/=", "*=">>, <<"%=", "*=">>,
     <<"&=", "|=">>, <<"|=", "&=">>, <<"^=", "&=">>, <<"<<=", ">>=">>, <<">>=", "<<=">>}

\* the AssignStmt forms for which the specification has MathAssignMutator
\* stay silent
AssignSuppressed(h, n) ==
    LET assign == h[n]
    IN \/ \A pair \in AssignPairs : pair[1] # assign.Tok
       \/ Len(assign.Rhs) > 1
       \/ assign.Tok \in {"+=", "-="} /\ DenotesZero(h, assign.Rhs[1])
       \/ assign.Tok \in {"*=", "/="} /\ DenotesOne(h, assign.Rhs[1])

\* arena h is the original but for the token of the node handed over
OnlyTokChanged(h) ==
    /\ DOMAIN h = DOMAIN orig
    /\ \A c \in DOMAIN orig : c # node => h[c] = orig[c]
    /\ h[node] = [orig[node] EXCEPT !.Tok = h[node].Tok]

\* C29: on a covered AssignStmt, MathAssignMutator calls Test() zero times
\* when the token is not in the assignment table, when there is more than one
\* right-hand side, when the token is += or -= and rhs[0] is a zero literal,
\* and when it is *= or /= and rhs[0] is a one literal; in every other case it
\* calls Test() exactly once, with the token the table gives and nothing else
\* changed, and the original token is back afterwards.
C29_MathAssignGating ==
    /\ Returned
    /\ ran = "mathopassign"
    /\ orig[node].tag = "AssignStmt"
    /\ NodeCovered
    => /\ Len(tests) = IF AssignSuppressed(orig, node) THEN 0 ELSE 1
       /\ \A k \in DOMAIN tests :
             /\ <<orig[node].Tok, tests[k][node].Tok>> \in AssignPairs
             /\ OnlyTokChanged(tests[k])
       /\ heap = orig

\* the claim but for the count of calls where rhs[0] is a literal: what
\* MathAssignMutator does apart from isZero and isOne
MathAssignTableAndRestore ==
    /\ Returned
    /\ ran = "mathopassign"
    /\ orig[node].tag = "AssignStmt"
    /\ NodeCovered
    => /\ orig[orig[node].Rhs[1]].tag # "BasicLit" =>
             Len(tests) = IF AssignSuppressed(orig, node) THEN 0 ELSE 1
       /\ Len(tests) <= 1
       /\ AssignSuppressed(orig, node) => tests = <<>>
       /\ \A k \in DOMAIN tests :
             /\ <<orig[node].Tok, tests[k][node].Tok>> \in AssignPairs
             /\ OnlyTokChanged(tests[k])
       /\ heap = orig


(***************************************************************************)
(* floatComparisonInverter (SpecOp).                                       *)
(***************************************************************************)
\* the places of arena h that hold an expression or a list element
SlotsOf(h) ==
    UNION {{Slot(p, f, 0) : f \in {"Cond", "X", "Y", "Value"} \cap DOMAIN h[p]}
           \cup UNION {{Slot(p, f, i) : i \in DOMAIN h[p][f]} :
                          f \in {"Rhs", "List"} \cap DOMAIN h[p]} :
              p \in {q \in DOMAIN h : h[q].tag # "BasicLit"}}

\* both operands of e have a recorded basic type, of one kind, float32 or float64
SameFloatKind(e) ==
    /\ orig[e].X \in DOMAIN parseInfo.TypesInfo
    /\ orig[e].Y \in DOMAIN parseInfo.TypesInfo
    /\ TypeOf(parseInfo, orig[e].X).class = "Basic"
    /\ TypeOf(parseInfo, orig[e].Y).class = "Basic"
    /\ TypeOf(parseInfo, orig[e].X).Kind \in {"Float32", "Float64"}
    /\ TypeOf(parseInfo, orig[e].Y).Kind = TypeOf(parseInfo, orig[e].X).Kind

InversePairs ==
    {<<"==", "!=">>, <<"!=", "==">>, <<"<", ">=">>, <<">=", "<">>,
     <<"<=", ">">>, <<">", "<=">>}

\* the nodes of the original tree as the tester saw them in t
Originals(t) == SubSeq(t, 1, Len(orig))

\* in t the place slot, which held the comparison c, holds a new node
\* NOT(c.X op' c.Y) on c's own operands, and nothing else of the original
\* nodes differs
InvertedAt(t, slot) ==
    LET c == Deref(orig, slot)
        u == Deref(t, slot)
    IN /\ c # 0
       /\ orig[c].tag = "BinaryExpr"
       /\ SameFloatKind(c)
       /\ u \notin DOMAIN orig
       /\ t[u].tag = "UnaryExpr" /\ t[u].Op = "!"
       /\ t[u].X \notin DOMAIN orig
       /\ t[t[u].X].tag = "BinaryExpr"
       /\ <<orig[c].Op, t[t[u].X].Op>> \in InversePairs
       /\ t[t[u].X].X = orig[c].X
       /\ t[t[u].X].Y = orig[c].Y
       /\ t[c] = orig[c]
       /\ Store(Originals(t), slot, c) = orig

\* the places inverted in t
InvertedSlots(t) == {slot \in SlotsOf(orig) : InvertedAt(t, slot)}

\* C30: every tree FloatComparisonInverter shows the tester differs from the
\* original at exactly one place, which held a comparison of two operands of
\* the same recorded float kind and now holds a new NOT(lhs op' rhs) with the
\* inverse operator and the same operand nodes, the comparison node itself
\* unwritten; no place is shown twice, the original nodes are as before
\* afterwards, and for a covered if statement there is one such tree for each
\* float comparison its condition reaches through parentheses, !, && and ||.
C30_FloatComparisonInverted ==
    /\ Returned
    /\ ran = "floatcompinv"
    => /\ \A k \in DOMAIN tests : Cardinality(InvertedSlots(tests[k])) = 1
       /\ \A j, k \in DOMAIN tests :
             InvertedSlots(tests[j]) = InvertedSlots(tests[k]) => j = k
       /\ Originals(heap) = orig
       /\ orig[node].tag = "IfStmt" /\ NodeCovered
             => Len(tests) = FloatCmps(parseInfo, orig, orig[node].Cond)

\* if f != g || f >= g: the tester saw !(f == g) || f >= g and then
\* f != g || !(f < g), each with the other comparison as written
C30_Witness ==
    /\ Returned
    /\ ran = "floatcompinv"
    /\ orig[node].tag = "IfStmt"
    /\ orig[orig[node].Cond].tag = "BinaryExpr"
    /\ orig[orig[node].Cond].Op = "||"
    /\ Len(tests) = 2
    /\ InvertedSlots(tests[1]) = {Slot(orig[node].Cond, "X", 0)}
    /\ InvertedSlots(tests[2]) = {Slot(orig[node].Cond, "Y", 0)}
    /\ tests[1][tests[1][tests[1][orig[node].Cond].X].X].Op = "=="
    /\ tests[2][tests[2][tests[2][orig[node].Cond].Y].X].Op = "<"
    /\ Originals(heap) = orig


\* the condition of the if statement handed over is !(f op g), a negated
\* comparison in parentheses of two operands of one float kind
NegatedFloatCmp ==
    /\ orig[node].tag = "IfStmt"
    /\ orig[orig[node].Cond].tag = "UnaryExpr"
    /\ orig[orig[node].Cond].Op = "!"
    /\ orig[orig[orig[node].Cond].X].tag = "ParenExpr"
    /\ orig[orig[orig[orig[node].Cond].X].X].tag = "BinaryExpr"
    /\ orig[orig[orig[orig[node].Cond].X].X].Op \in {"<", "<=", ">", ">="}
    /\ SameFloatKind(orig[orig[orig[node].Cond].X].X)

RECURSIVE Unparen(_, _)
\* expression e of arena h without the parentheses around it
Unparen(h, e) == IF h[e].tag = "ParenExpr" THEN Unparen(h, h[e].X) ELSE e

\* C31: applied to a covered if statement whose condition is the negated
\* float comparison !(f op g), the float comparison inverter shows the tester
\* one tree, whose condition is the comparison f op' g with the inverse
\* operator on the same operands and no negation.
C31_NegatedComparisonUnnegated ==
    /\ Returned
    /\ ran = "floatcompinv"
    /\ NodeCovered
    /\ NegatedFloatCmp
    => /\ Len(tests) = 1
       /\ LET t == tests[1]
              cmp == orig[orig[orig[orig[node].Cond].X].X]
              c == Unparen(t, t[node].Cond)
          IN /\ t[c].tag = "BinaryExpr"
             /\ <<cmp.Op, t[c].Op>> \in InversePairs
             /\ t[c].X = cmp.X
             /\ t[c].Y = cmp.Y

\* what the code shows instead: the negation and the parentheses stay, and
\* the comparison inside them is replaced by a second negation over the
\* inverse comparison, !(f op g) being shown as !(!(f op' g))
DoublyNegated ==
    /\ Returned
    /\ ran = "floatcompinv"
    /\ NodeCovered
    /\ NegatedFloatCmp
    => /\ Len(tests) = 1
       /\ LET t == tests[1]
              cmp == orig[orig[orig[orig[node].Cond].X].X]
              outer == t[node].Cond
              paren == t[outer].X
              inner == t[paren].X
          IN /\ outer = orig[node].Cond
             /\ t[outer] = orig[outer]
             /\ t[paren].tag = "ParenExpr"
             /\ t[inner].tag = "UnaryExpr" /\ t[inner].Op = "!"
             /\ t[t[inner].X].tag = "BinaryExpr"
             /\ <<cmp.Op, t[t[inner].X].Op>> \in InversePairs
             /\ t[t[inner].X].X = cmp.X
             /\ t[t[inner].X].Y = cmp.Y


(***************************************************************************)
(* returnValueMutator on identifiers (SpecOp).                             *)
(***************************************************************************)
\* the statement list ReturnValueMutator works on, as arena h holds it
CarrierIn(h) ==
    IF orig[node].tag = "BlockStmt" THEN h[node].List
    ELSE IF orig[node].tag = "CaseClause" THEN h[node].Body
    ELSE <<>>

\* the results of statement i of the list that are identifiers of basic
\* type, as pairs <<i, k>> in the order of the results
IdentResults(i) ==
    LET stmt == orig[ReturnCarrier[i]]
    IN IF stmt.tag # "ReturnStmt" THEN <<>>
       ELSE LET ks == SelectSeq([k \in 1..Len(stmt.Results) |-> k],
                                LAMBDA k : /\ orig[stmt.Results[k]].tag = "Ident"
                                           /\ TypeOf(parseInfo, stmt.Results[k]).class = "Basic")
            IN [j \in 1..Len(ks) |-> <<i, ks[j]>>]

RECURSIVE IdentResultsUpTo(_)
\* those of statements 1..n, in the order of the list
IdentResultsUpTo(n) ==
    IF n = 0 THEN <<>> ELSE IdentResultsUpTo(n - 1) \o IdentResults(n)

\* the Test() calls made while the list was not the original one
ListTests ==
    SelectSeq([j \in 1..Len(tests) |-> j], LAMBDA j : CarrierIn(tests[j]) # ReturnCarrier)

\* u is a new statement `_ = name` of arena t
IsUnusedAssign(t, u, name) ==
    /\ u \notin DOMAIN orig
    /\ t[u].tag = "AssignStmt"
    /\ t[u].Tok = "="
    /\ Len(t[u].Lhs) = 1 /\ t[t[u].Lhs[1]].tag = "Ident" /\ t[t[u].Lhs[1]].Name = "_"
    /\ Len(t[u].Rhs) = 1 /\ t[t[u].Rhs[1]].tag = "Ident" /\ t[t[u].Rhs[1]].Name = name

NineOperators ==
    {"voidrm", "swapifelse", "swapswitch", "condbound", "mathop", "boolop",
     "mathopassign", "negcond", "floatcompinv"}

\* the operator names in the queue, in its order
QueuedNames == [i \in DOMAIN queue |-> queue[i].m]

\* the queue holds each name of S exactly once and nothing else
HoldsEachOnce(S) ==
    /\ Len(QueuedNames) = Cardinality(S)
    /\ \A name \in S : \E i \in DOMAIN QueuedNames : QueuedNames[i] = name
    /\ \A i \in DOMAIN QueuedNames : QueuedNames[i] \in S

\* main has loaded the queue and started the workers
Launched == boot.pc = "launched"

\* C33: with no -mutations flag the operator queue holds exactly the nine
\* operators voidrm, swapifelse, swapswitch, condbound, mathop, boolop,
\* mathopassign, negcond and floatcompinv, each once and nothing else; with
\* a -mutations list it holds exactly the operators named.
C33_QueueHoldsNamedOperators ==
    Launched =>
        IF osargs.mutations = <<>>
        THEN HoldsEachOnce(NineOperators)
        ELSE QueuedNames = osargs.mutations

\* what the code loads: every key of Mutators, "inspect" among them, when
\* there is no list, and the list itself otherwise
QueueHoldsCatalogue ==
    Launched =>
        IF osargs.mutations = <<>>
        THEN HoldsEachOnce(Mutators) /\ \E i \in DOMAIN queue : queue[i].m = "inspect"
        ELSE QueuedNames = osargs.mutations


(***************************************************************************)
(* Properties of the coverage profile (SpecCov).                           *)
(***************************************************************************)
\* position (l1, c1) is not after (l2, c2) in the order by line, then column
NotAfter(l1, c1, l2, c2) == l1 < l2 \/ (l1 = l2 /\ c1 <= c2)

\* C34: covered() is true exactly when some block of the list has a count
\* above zero and the node's position lies between the block's start and
\* end in the order by line and then column, both ends included; it is
\* false for an empty list.
C34_CoveredExact ==
    covres.asked =>
        /\ covres.covered <=>
              \E k \in DOMAIN cover.Blocks :
                  /\ cover.Blocks[k].Count > 0
                  /\ NotAfter(cover.Blocks[k].StartLine, cover.Blocks[k].StartCol,
                              cover.pos.Line, cover.pos.Column)
                  /\ NotAfter(cover.pos.Line, cover.pos.Column,
                              cover.Blocks[k].EndLine, cover.Blocks[k].EndCol)
        /\ cover.Blocks = <<>> => ~covres.covered

\* a position on the first line of the only executed block but left of its
\* start column is not covered, a zero-count block around it notwithstanding
C34_Witness ==
    /\ covres.asked
    /\ ~covres.covered
    /\ Len(cover.Blocks) = 2
    /\ cover.Blocks[1].Count = 0
    /\ cover.Blocks[1].StartLine = 1 /\ cover.Blocks[1].StartCol = 1
    /\ cover.Blocks[1].EndLine = MaxLine
    /\ cover.Blocks[2].Count > 0
    /\ cover.Blocks[2].StartLine = 1 /\ cover.Blocks[2].StartCol = 2
    /\ cover.Blocks[2].EndLine = 2
    /\ cover.pos = [Line |-> 1, Column |-> 1]

\* C35: after the filter the list holds exactly the blocks of the input
\* whose count is above zero, in their order, whatever the input: zero-count
\* blocks in a row, at the first index or at the last.
C35_FilterKeepsCovered ==
    covres.filtered =>
        covres.Blocks = SelectSeq(cover.Blocks, LAMBDA block : block.Count > 0)

\* a list of two zero-count blocks and then an executed one has been
\* filtered down to the executed one
C35_Witness ==
    /\ covres.filtered
    /\ Len(cover.Blocks) = 3
    /\ cover.Blocks[1].Count = 0
    /\ cover.Blocks[2].Count = 0
    /\ cover.Blocks[3].Count > 0
    /\ covres.Blocks = <<cover.Blocks[3]>>


(***************************************************************************)
(* One rewrite at a time (SpecOp).                                         *)
(***************************************************************************)
\* the original nodes that the tester saw changed in t
ChangedNodes(t) == {id \in DOMAIN orig : t[id] # orig[id]}

\* the fields of original node p that the tester saw changed in t
ChangedFields(t, p) == {f \in DOMAIN orig[p] : t[p][f] # orig[p][f]}

\* sequences s and r differ in exactly one element
OneElementDiffers(s, r) ==
    /\ Len(s) = Len(r)
    /\ Cardinality({i \in DOMAIN s : s[i] # r[i]}) = 1

\* one operator token, one literal text, one statement list or one
\* expression slot of node p is changed in t, and nothing else of p
OneFieldRewritten(t, p) ==
    /\ DOMAIN t[p] = DOMAIN orig[p]
    /\ \E f \in DOMAIN orig[p] :
          /\ ChangedFields(t, p) = {f}
          /\ \/ f \in {"Op", "Tok"} /\ orig[p].tag \in {"BinaryExpr", "AssignStmt"}
             \/ f = "Value" /\ orig[p].tag \in {"BasicLit", "SendStmt"}
             \/ f = "List" /\ orig[p].tag = "BlockStmt"
             \/ f = "Body" /\ orig[p].tag = "CaseClause"
             \/ f \in {"Cond", "X", "Y"}
             \/ /\ \/ f = "Rhs" /\ orig[p].tag = "AssignStmt"
                   \/ f = "List" /\ orig[p].tag = "CaseClause"
                /\ OneElementDiffers(t[p][f], orig[p][f])

\* the two branches of if statement p are exchanged in t, and nothing else of p
IfElseExchanged(t, p) ==
    /\ orig[p].tag = "IfStmt"
    /\ ChangedFields(t, p) = {"Body", "Else"}
    /\ t[p].Body = orig[p].Else
    /\ t[p].Else = orig[p].Body

\* the bodies of case clauses a and b are exchanged in t, and nothing else of them
CaseBodiesExchanged(t, a, b) ==
    /\ orig[a].tag = "CaseClause"
    /\ orig[b].tag = "CaseClause"
    /\ ChangedFields(t, a) = {"Body"}
    /\ ChangedFields(t, b) = {"Body"}
    /\ t[a].Body = orig[b].Body
    /\ t[b].Body = orig[a].Body

\* t differs from the original in exactly one local rewrite
OneLocalRewrite(t) ==
    \/ \E p \in DOMAIN orig :
          /\ ChangedNodes(t) = {p}
          /\ OneFieldRewritten(t, p) \/ IfElseExchanged(t, p)
    \/ \E a, b \in DOMAIN orig :
          /\ a # b
          /\ ChangedNodes(t) = {a, b}
          /\ CaseBodiesExchanged(t, a, b)

SendOnClosed ==
    /\ proc = "running"
    /\ closed
    /\ \E w \in Workers : wk[w].pc = "send"
    /\ sigs' = sigs
    /\ wg' = wg
    /\ proc' = "panicked"

\* a step in which the signal goroutine or the goroutine behind wg.Wait()
\* closes the results channel a second time
SecondClose ==
    /\ proc = "running"
    /\ closed
    /\ sigs' # sigs \/ wg' # wg

NeverSendOnClosed == [][~SendOnClosed]_vars
NeverSecondClose == [][~SecondClose]_vars

\* C37: in every run, with a signal at any point or none, the results
\* channel is closed at most once and no worker sends on it once it is
\* closed.
C37_ClosedOnceNoSendAfter == [][~SendOnClosed /\ ~SecondClose]_vars


(***************************************************************************)
(* The counters (Spec).                                                    *)
(***************************************************************************)
\* 0 <= alive <= total and skipped >= 0
WellFormed(r) == 0 <= r.alive /\ r.alive <= r.total /\ r.skipped >= 0

\* from r to q no counter falls, and each rises by at most most
RaisedBy(r, q, most) ==
    /\ q.alive - r.alive \in 0..most
    /\ q.total - r.total \in 0..most
    /\ q.skipped - r.skipped \in 0..most

\* what a step does to the counters of worker w's tester (which lasts from
\* the start of a walk to the send at its end) and to main's sum
C38Step(w) ==
    /\ TestStep(w) /\ proc' = "running" => RaisedBy(wk[w].result, wk'[w].result, 1)
    /\ ~TestStep(w) /\ wk[w].pc # "send" /\ wk'[w].pc # "gone"
          => wk'[w].result = wk[w].result
    /\ res'.alive >= res.alive /\ res'.total >= res.total /\ res'.skipped >= res.skipped

\* C38: in every state every tester's counters and main's sum have
\* 0 <= alive <= total and skipped >= 0; no counter ever falls; and one
\* Test() call raises total, alive and skipped by at most one each (after n
\* calls none of them is above n).
C38_CountersWellFormed ==
    /\ [](/\ WellFormed(res)
          /\ \A w \in Workers :
                /\ WellFormed(wk[w].result)
                /\ wk[w].result.total <= wk[w].calls
                /\ wk[w].result.skipped <= wk[w].calls)
    /\ [][\A w \in Workers : C38Step(w)]_vars

\* main has summed a record with a surviving mutant, and a tester whose
\* build failed stands at one skipped mutant and no test run
C38_Witness ==
    /\ res.alive = 1
    /\ res.total = 1
    /\ \E w \in Workers :
          /\ wk[w].pc = "send"
          /\ wk[w].calls = 1
          /\ wk[w].result = [alive |-> 0, total |-> 0, skipped |-> 1]


(***************************************************************************)
(* Early returns of the workers (SpecLive).                                *)
(***************************************************************************)
\* worker w's goroutine has returned from Mutate and its deferred wg.Done()
\* has run (or the process is gone, and the goroutine with it)
Done(w) == wk[w].pc \in {"returned", "gone"}

\* worker w returned before its loop: its type check or snapshot write failed
Failed(w) == wk[w].pc = "returned" /\ \A i \in DOMAIN taken : taken[i].w # w

\* C39: with no signal, main's loop over results ends and main reports, also
\* when workers return early; a worker that has returned stays returned (its
\* completion is signalled once); results is closed only when every worker
\* has returned; the mutators a failed worker left in the queue are received
\* by the workers that got to their loop, and a queue that is not empty when
\* main reports was touched by no worker.
C39_EarlyReturnsTerminate ==
    /\ <>Reported
    /\ [](closed => \A w \in Workers : Done(w))
    /\ [][\A w \in Workers : Done(w) => Done(w)']_vars
    /\ [][closed => closed' /\ wg' = wg]_vars
    /\ \A w \in Workers : (wk[w].pc = "range") ~> (queue = <<>>)
    /\ [](Reported /\ queue # <<>> => taken = <<>>)

\* one worker failed before its loop and the other received both mutators
\* of the queue; every worker has returned and results is closed
C39_Witness ==
    /\ proc = "running"
    /\ closed
    /\ wg = "closed"
    /\ queue = <<>>
    /\ Len(taken) = 2
    /\ taken[1].w = taken[2].w
    /\ \E w \in Workers : Failed(w) /\ wk[w].heap = <<>>
    /\ res.total > 0


(***************************************************************************)
(* Errors of the test run (Spec).                                          *)
(***************************************************************************)
\* what a step does to the counters of worker w's tester when it is the end
\* of a test run, and when it raises alive
C40Step(w) ==
    /\ \A err \in RunErrors \ {NoError} :
          TestRunWith(w, err)
              => /\ wk'[w].result.total = wk[w].result.total + 1
                 /\ wk'[w].result.alive = wk[w].result.alive
                 /\ wk'[w].result.skipped = wk[w].result.skipped
    /\ wk'[w].result.alive > wk[w].result.alive
          => /\ wk[w].pc = "test"
             /\ TestRunWith(w, NoError)
             /\ wk'[w].result.total = wk[w].result.total + 1

\* C40: alive is raised only at the end of a test run that returned no
\* error, which is started only after a successful build; a test run that
\* ends with any error, be it a non-zero exit status, a signal or a failure
\* to start the runner, raises total and leaves alive as it is.
C40_AnyErrorKills == [][\A w \in Workers : C40Step(w)]_vars

\* a tester whose one mutant was built and run and did not survive
C40_Witness ==
    \E w \in Workers :
        /\ wk[w].pc = "send"
        /\ wk[w].calls = 1
        /\ wk[w].written = 1
        /\ wk[w].result = [alive |-> 0, total |-> 1, skipped |-> 0]

====
